---- MODULE Spec2Model ----
(***************************************************************************)
(* The packrat parser that peggy generates (gen.go): the memo table kept   *)
(* by the Accepts pass and the Node and Fail passes that replay it, run on *)
(* a family of small checked grammars over every short input text; the     *)
(* Action pass, labels and code predicates; the cells of the memo table on *)
(* long texts; the semantic check of grammar sources (check.go) that       *)
(* precedes generation; and the lexer's character classes and escapes.     *)
(***************************************************************************)
EXTENDS Integers, Sequences, FiniteSets, TLC

\* ---------------------------------------------------------------- bounds
MaxLen == 2        \* longest input text
MaxCalls == 2      \* top-level calls of generated functions per parser
MaxRules == 2      \* rules of a grammar source put together from the pool
MaxChecks == 2     \* calls of Check per grammar source
MaxClass == 3      \* runes of a character class after its [

\* ------------------------------------------------------- expression forms
Literal(s) == [t |-> "Literal", Text |-> s]
AnyExpr == [t |-> "Any"]
Ident(r) == [t |-> "Ident", rule |-> r]
Sequence(es) == [t |-> "Sequence", Exprs |-> es]
Choice(es) == [t |-> "Choice", Exprs |-> es]
PredExpr(e, neg) == [t |-> "PredExpr", Expr |-> e, Neg |-> neg]
RepExpr(e, op) == [t |-> "RepExpr", Expr |-> e, Op |-> op]
OptExpr(e) == [t |-> "OptExpr", Expr |-> e]
SubExpr(e) == [t |-> "SubExpr", Expr |-> e]

\* The forms that carry code, as Check leaves them: a label with its index N
\* in the rule's labels; a code predicate and an action with the indexes N of
\* the labels in their scope, in the order of the labels' names.
LabelExprN(label, n, e) == [t |-> "LabelExpr", Label |-> label, N |-> n, Expr |-> e]
PredCode(code, neg, labels) ==
    [t |-> "PredCode", Code |-> code, Neg |-> neg, Labels |-> labels]
ActionExpr(e, type, code, labels) ==
    [t |-> "Action", Expr |-> e, ReturnType |-> type, Code |-> code, Labels |-> labels]

\* Labels: the names of the rule's labels, the label with N = k at k + 1.
Rule(name, errName, e) ==
    [Name |-> name, ErrorName |-> errName, Expr |-> e, Labels |-> <<>>]
LabelledRule(name, e, labels) ==
    [Name |-> name, ErrorName |-> "", Expr |-> e, Labels |-> labels]

\* ------------------------------------------------------- checked grammars
\* Each grammar is the CheckedRules of a grammar that Check accepts; rule
\* columns are numbered from 1 (the code numbers them from 0).
La == Literal(<<"a">>)
Lb == Literal(<<"b">>)
Lc == Literal(<<"c">>)

\* A <- B "c"/B "b"              B <- "a"            (rule memo success/failure)
GMemo ==
    << Rule("A", "", Choice(<< Sequence(<<Ident(2), Lc>>),
                               Sequence(<<Ident(2), Lb>>) >>)),
       Rule("B", "", La) >>

\* A <- &B "c"/B                 B <- "a" "b"        (no cache silent fails)
GSilent ==
    << Rule("A", "", Choice(<< Sequence(<<PredExpr(Ident(2), FALSE), Lc>>),
                               Ident(2) >>)),
       Rule("B", "", Sequence(<<La, Lb>>)) >>

\* A <- B "c"                    B "name" <- "a" "b"/"a"/"b" "c"   (named rule)
GNamed ==
    << Rule("A", "", Sequence(<<Ident(2), Lc>>)),
       Rule("B", "name", Choice(<< Sequence(<<La, Lb>>), La, Sequence(<<Lb, Lc>>) >>)) >>

\* A <- &(B C) "a"               B <- "b"   C <- "c"
GAhead ==
    << Rule("A", "", Sequence(<<PredExpr(SubExpr(Sequence(<<Ident(2), Ident(3)>>)), FALSE), La>>)),
       Rule("B", "", Lb),
       Rule("C", "", Lc) >>

\* A <- R/"a"                    R "name" <- !&("b" C)   C <- "c"
GNamedPred ==
    << Rule("A", "", Choice(<< Ident(2), La >>)),
       Rule("R", "name",
            PredExpr(PredExpr(SubExpr(Sequence(<<Lb, Ident(3)>>)), FALSE), TRUE)),
       Rule("C", "", Lc) >>

\* A <- ("a"?/"b") "c"                               (a branch that cannot fail)
GChoiceOpt ==
    << Rule("A", "", Sequence(<< SubExpr(Choice(<<OptExpr(La), Lb>>)), Lc >>)) >>

\* A <- "a"/"b"?                                     (choice that can't fail)
GChoiceLast ==
    << Rule("A", "", Choice(<< La, OptExpr(Lb) >>)) >>

\* A <- B* "c"/B+                B <- "a"/"b" "b"
GRep ==
    << Rule("A", "", Choice(<< Sequence(<<RepExpr(Ident(2), "*"), Lc>>),
                               RepExpr(Ident(2), "+") >>)),
       Rule("B", "", Choice(<< La, Sequence(<<Lb, Lb>>) >>)) >>

\* A <- B "c"                    B <- "a" "b"/.      (latest error)
GLatest ==
    << Rule("A", "", Sequence(<<Ident(2), Lc>>)),
       Rule("B", "", Choice(<< Sequence(<<La, Lb>>), AnyExpr >>)) >>

\* A <- "a" A/!B "b"             B <- "b" "c"        (right recursion)
GRight ==
    << Rule("A", "", Choice(<< Sequence(<<La, Ident(1)>>),
                               Sequence(<<PredExpr(Ident(2), TRUE), Lb>>) >>)),
       Rule("B", "", Sequence(<<Lb, Lc>>)) >>

\* A <- ("a"?)* "b"             B <- (&"a")+ "a"    (repetitions of the empty)
GEmptyRep ==
    << Rule("A", "", Sequence(<<RepExpr(SubExpr(OptExpr(La)), "*"), Lb>>)),
       Rule("B", "", Sequence(<<RepExpr(SubExpr(PredExpr(La, FALSE)), "+"), La>>)) >>

Grammars ==
    << GMemo, GSilent, GNamed, GAhead, GNamedPred,
       GChoiceOpt, GChoiceLast, GRep, GLatest, GRight, GEmptyRep >>

\* ---------------------------------------------- checked grammars with code
\* In these grammars a sequence, a repetition or an option stands only under
\* an action, where the Action pass builds no value for it, and the labels
\* are labels of terminals, whose value is the text they match.
\* A <- (x:"a" "b"/"a") &{x == ""}        (a label in an abandoned branch)
GLabelChoice ==
    << LabelledRule("A",
          Sequence(<< SubExpr(Choice(<< Sequence(<<LabelExprN("x", 0, La), Lb>>), La >>)),
                      PredCode("x == \"\"", FALSE, <<0>>) >>),
          <<"x">>) >>

\* A <- (x:. "b")* !{x == ""} B          B <- "c"   (a label in an iteration)
GLabelRep ==
    << LabelledRule("A",
          Sequence(<< RepExpr(SubExpr(Sequence(<<LabelExprN("x", 0, AnyExpr), Lb>>)), "*"),
                      PredCode("x == \"\"", TRUE, <<0>>),
                      Ident(2) >>),
          <<"x">>),
       Rule("B", "", Lc) >>

\* A <- (B "b"/B "c") string:{ return "v" }
\* B <- "a" "interface{}":{ return nil }            (an action that returns nil)
GActNil ==
    << Rule("A", "", ActionExpr(SubExpr(Choice(<< Sequence(<<Ident(2), Lb>>),
                                                   Sequence(<<Ident(2), Lc>>) >>)),
                                "string", "return \"v\"", <<>>)),
       Rule("B", "", ActionExpr(La, "interface{}", "return nil", <<>>)) >>

\* A <- B "b"/B C/C              B <- "a" "*T":{ return (*T)(nil) }
\* C <- x:. "interface{}":{ return x }               (values that are not nil)
GActPtr ==
    << Rule("A", "", Choice(<< ActionExpr(Sequence(<<Ident(2), Lb>>),
                                          "interface{}", "return \"v\"", <<>>),
                               ActionExpr(Sequence(<<Ident(2), Ident(3)>>),
                                          "interface{}", "return \"v\"", <<>>),
                               Ident(3) >>)),
       Rule("B", "", ActionExpr(La, "*T", "return (*T)(nil)", <<>>)),
       LabelledRule("C",
          ActionExpr(LabelExprN("x", 0, AnyExpr), "interface{}", "return x", <<0>>),
          <<"x">>) >>

CodeGrammars == << GLabelChoice, GLabelRep, GActNil, GActPtr >>

AllGrammars == Grammars \o CodeGrammars

Alphabet == {"a", "b", "c"}

RECURSIVE SeqsUpTo(_)
SeqsUpTo(n) ==
    IF n = 0 THEN {<<>>}
    ELSE LET S == SeqsUpTo(n - 1)
         IN S \cup {Append(s, x) : s \in {u \in S : Len(u) = n - 1}, x \in Alphabet}

Texts == SeqsUpTo(MaxLen)


\* ------------------------------------------------------------------ state
VARIABLES
    gr,         \* index in Grammars of the grammar the parser was generated from
    text,       \* parser.text
    parser,     \* the _Parser fields and the record of what the calls did
    ncalls,     \* top-level calls made so far
    last,       \* the most recent top-level call and what it returned
    grammar,    \* the rules of the grammar source handed to Check
    checks,     \* what each call of Check on the grammar did, in order
    lexer       \* the lexer of a grammar source, and what its calls returned

vars == <<gr, text, parser, ncalls, last, grammar, checks, lexer>>

Rules == AllGrammars[gr]
N == Len(Rules)

Nil == [nil |-> TRUE]

_max(x, y) == IF x > y THEN x ELSE y

\* int32(x): the value a 32-bit two's complement cell holds after storing x.
CellMax == 2147483647
int32(x) ==
    IF x > CellMax THEN x - CellMax - CellMax - 2
    ELSE IF x < 0 - CellMax - 1 THEN x + CellMax + CellMax + 2
    ELSE x

\* int32(x + 1) and int32(x - 1) for an x that a 32-bit cell holds: the
\* increment and the decrement of the cell encoding, with their wrap-around.
inc32(x) == IF x = CellMax THEN (0 - CellMax) - 1 ELSE x + 1
dec32(x) == IF x = (0 - CellMax) - 1 THEN CellMax ELSE x - 1

\* ------------------------------------------------------------ Expr methods
RECURSIVE CanFail(_)
CanFail(e) ==
    CASE e.t = "Choice" -> \A i \in 1..Len(e.Exprs) : CanFail(e.Exprs[i])
      [] e.t = "Sequence" -> \E i \in 1..Len(e.Exprs) : CanFail(e.Exprs[i])
      [] e.t = "PredExpr" -> CanFail(e.Expr)
      [] e.t = "RepExpr" -> e.Op = "+" /\ CanFail(e.Expr)
      [] e.t = "OptExpr" -> FALSE
      [] e.t = "SubExpr" -> CanFail(e.Expr)
      [] e.t = "LabelExpr" -> CanFail(e.Expr)
      [] e.t = "Action" -> CanFail(e.Expr)
      [] OTHER -> TRUE

RECURSIVE Join(_)
Join(s) == IF s = <<>> THEN "" ELSE Head(s) \o Join(Tail(s))

RECURSIVE String(_)
RECURSIVE StringList(_, _)
StringList(es, sep) ==
    IF Len(es) = 1 THEN String(es[1])
    ELSE String(es[1]) \o sep \o StringList(Tail(es), sep)
String(e) ==
    CASE e.t = "Choice" -> StringList(e.Exprs, "/")
      [] e.t = "Sequence" -> StringList(e.Exprs, " ")
      [] e.t = "PredExpr" -> (IF e.Neg THEN "!" ELSE "&") \o String(e.Expr)
      [] e.t = "RepExpr" -> String(e.Expr) \o e.Op
      [] e.t = "OptExpr" -> String(e.Expr) \o "?"
      [] e.t = "SubExpr" -> "(" \o String(e.Expr) \o ")"
      [] e.t = "Ident" -> Rules[e.rule].Name
      [] e.t = "Literal" -> "\"" \o Join(e.Text) \o "\""
      [] e.t = "Any" -> "."
      [] e.t = "LabelExpr" -> e.Label \o ":" \o String(e.Expr)
      [] e.t = "PredCode" -> (IF e.Neg THEN "!{" ELSE "&{") \o "...}"
      [] e.t = "Action" -> String(e.Expr) \o " " \o e.ReturnType \o ":{...}"

\* ------------------------------------------------------------- the parser
\* _NewParser: zeroed tables with one row per position 0..len(text), empty
\* maps, lastFail at its zero value.  The remaining fields record the calls:
\*   execs[i][r]  how often the Accepts pass ran rule r's expression at i
\*   ret[i][r]    the (dp, de) that _memoize returned for (i, r), or <<>>
\*   memoLog      the _memoize calls of the current top-level call, in order
\*   accLog       the Accepts returns of the current top-level call, in order,
\*                each with the caller's perr once _accept has raised it
\*   chLog        the branches of choices entered by the current top-level call
\*   predLog      the predicates left by the current top-level call, in order
\*   nodeLog      the Node returns of the current top-level call, in order
\*   failLog      the Fail returns of the current top-level call, in order
\*   hang         the current top-level call is in a loop that it never leaves
\*   codeLog      the code predicates run by the current top-level call, in
\*                order, each with the label strings it was handed
\*   actLog       the action code run and the Action returns of the current
\*                top-level call, in order
_NewParser(txt, n) ==
    [ deltaPos |-> [i \in 0..Len(txt) |-> [r \in 1..n |-> 0]],
      deltaErr |-> [i \in 0..Len(txt) |-> [r \in 1..n |-> 0]],
      node |-> [i \in 0..Len(txt) |-> [r \in 1..n |-> Nil]],
      fail |-> [i \in 0..Len(txt) |-> [r \in 1..n |-> Nil]],
      act |-> [i \in 0..Len(txt) |-> [r \in 1..n |-> Nil]],
      lastFail |-> 0,
      execs |-> [i \in 0..Len(txt) |-> [r \in 1..n |-> 0]],
      ret |-> [i \in 0..Len(txt) |-> [r \in 1..n |-> <<>>]],
      memoLog |-> <<>>, accLog |-> <<>>, chLog |-> <<>>, predLog |-> <<>>,
      nodeLog |-> <<>>, failLog |-> <<>>, hang |-> FALSE, codeLog |-> <<>>,
      actLog |-> <<>> ]

\* _memoize keeping the greatest lastFail instead of overwriting it.
_memoizeMaxLastFail(p, rule, start, pos, perr) ==
    LET derr == perr - start
        dpos == pos - start
        dp == IF pos >= 0 THEN dpos ELSE -1
    IN [ dp |-> dp, de |-> derr,
         p |-> [p EXCEPT
                 !.lastFail = _max(@, perr),
                 !.deltaErr[start][rule] = inc32(derr),
                 !.deltaPos[start][rule] = IF pos >= 0 THEN inc32(dpos) ELSE -1,
                 !.ret[start][rule] = <<dp, derr>>,
                 !.memoLog = Append(@, [rule |-> rule, start |-> start,
                                        pos |-> pos, perr |-> perr,
                                        before |-> p.lastFail]) ] ]

\* _memoize storing the error offset without the +1 of the encoding.
_memoizeRawErr(p, rule, start, pos, perr) ==
    LET derr == perr - start
        dpos == pos - start
        dp == IF pos >= 0 THEN dpos ELSE -1
    IN [ dp |-> dp, de |-> derr,
         p |-> [p EXCEPT
                 !.lastFail = perr,
                 !.deltaErr[start][rule] = int32(derr),
                 !.deltaPos[start][rule] = IF pos >= 0 THEN inc32(dpos) ELSE -1,
                 !.ret[start][rule] = <<dp, derr>>,
                 !.memoLog = Append(@, [rule |-> rule, start |-> start,
                                        pos |-> pos, perr |-> perr,
                                        before |-> p.lastFail]) ] ]

_memoize(p, rule, start, pos, perr) ==
    LET derr == perr - start
        dpos == pos - start
        dp == IF pos >= 0 THEN dpos ELSE -1
    IN [ dp |-> dp, de |-> derr,
         p |-> [p EXCEPT
                 !.lastFail = perr,
                 !.deltaErr[start][rule] = inc32(derr),
                 !.deltaPos[start][rule] = IF pos >= 0 THEN inc32(dpos) ELSE -1,
                 !.ret[start][rule] = <<dp, derr>>,
                 !.memoLog = Append(@, [rule |-> rule, start |-> start,
                                        pos |-> pos, perr |-> perr,
                                        before |-> p.lastFail]) ] ]

\* _memo taking a recorded failure (-1) for an unrecorded cell.
_memoFailureUnrecorded(p, rule, start) ==
    LET dp == p.deltaPos[start][rule]
        de == dec32(p.deltaErr[start][rule])
    IN IF dp <= 0 THEN [dp |-> 0, de |-> 0, ok |-> FALSE]
       ELSE [dp |-> dp - 1, de |-> de, ok |-> TRUE]

_memo(p, rule, start) ==
    LET dp == p.deltaPos[start][rule]
        de == dec32(p.deltaErr[start][rule])
    IN IF dp = 0 THEN [dp |-> 0, de |-> 0, ok |-> FALSE]
       ELSE [dp |-> IF dp > 0 THEN dp - 1 ELSE dp, de |-> de, ok |-> TRUE]

\* --------------------------------------------------- generated rule passes
\* The code that gen emits for an expression runs on a context
\*   c = [pos, perr, kids, labels, path, ok, p]
\* pos and perr are the locals of the generated function, kids is node.Kids
\* (Node pass) or failure.Kids (Fail pass), labels is the function's array
\* of label strings, ok tells whether control left the expression's code at
\* its end (TRUE) or by goto to its fail label, and p is the parser.  path is
\* not in the code: it is what labels would hold if every fail label that
\* restores pos restored the label strings with it.  In the Action pass c has
\* one more field, node: the value of the variable that the code assigns the
\* expression's value to, which st.node tells it to do (gen's node argument
\* is not empty).  A value is [type, val]: its static Go type and what it
\* holds, "nil" for the nil of a pointer or an interface.  st = [pass, errPos, pd] is the pass being generated, the
\* errPos argument of the Fail pass, and the number of predicates the code
\* is running under.
RECURSIVE gen(_, _, _)
RECURSIVE sequenceTemplate(_, _, _, _)
RECURSIVE choiceBranches(_, _, _, _, _)
RECURSIVE repLoop(_, _, _)
RECURSIVE ruleAccepts(_, _, _, _)
RECURSIVE ruleNode(_, _, _)
RECURSIVE ruleFail(_, _, _, _)
RECURSIVE ruleAction(_, _, _)

EmptyFail == [Name |-> "", Pos |-> 0, Want |-> "", Kids |-> <<>>]

\* var labels [len(Rule.Labels)]string: every label string empty.
stringLabels(rule) == [k \in 1..Len(Rules[rule].Labels) |-> <<>>]

\* Expr.Type: the Go type of the expression's value in the Action pass.
RECURSIVE Type(_)
Type(e) ==
    CASE e.t = "Action" -> e.ReturnType
      [] e.t = "Choice" ->
            IF \A i \in 1..Len(e.Exprs) : Type(e.Exprs[i]) = Type(e.Exprs[1])
            THEN Type(e.Exprs[1]) ELSE "interface{}"
      [] e.t = "Sequence" ->
            IF \A i \in 1..Len(e.Exprs) : Type(e.Exprs[i]) = Type(e.Exprs[1])
            THEN "[]" \o Type(e.Exprs[1]) ELSE "[]interface{}"
      [] e.t = "LabelExpr" -> Type(e.Expr)
      [] e.t = "SubExpr" -> Type(e.Expr)
      [] e.t = "RepExpr" -> "[]" \o Type(e.Expr)
      [] e.t = "OptExpr" -> "*" \o Type(e.Expr)
      [] e.t = "Ident" -> Type(Rules[e.rule].Expr)
      [] e.t \in {"PredExpr", "PredCode"} -> "bool"
      [] OTHER -> "string"

\* var node T: the zero value of the type.
zero(type) ==
    [type |-> type,
     val |-> CASE type = "string" -> <<>> [] type = "bool" -> FALSE [] OTHER -> "nil"]

\* parser.act[key] = node: the conversion of a value to interface{}.  The nil
\* of an interface type converts to the nil interface, which is also what the
\* map gives for a key it does not hold; every other value, the nil of a
\* pointer type too, converts to an interface that is not nil.
iface(v) == IF v.type = "interface{}" /\ v.val = "nil" THEN Nil ELSE v

\* *n = v for a variable of the given static type.
assign(type, v) == [type |-> type, val |-> v.val]
_leaf(start, end) == [Name |-> "", Text |-> SubSeq(text, start + 1, end), Kids |-> <<>>]
_sub(start, end, kids) == [Name |-> "", Text |-> SubSeq(text, start + 1, end), Kids |-> kids]

\* _accept that advances pos but leaves the caller's perr alone.
_acceptKeepsPerr(c, r) ==
    [c EXCEPT !.pos = IF r.dp < 0 THEN c.pos ELSE c.pos + r.dp,
              !.ok = r.dp >= 0,
              !.p = [r.p EXCEPT !.accLog[Len(r.p.accLog)].perr = c.perr]]

\* _accept, given what the rule's Accepts returned (r): raise perr, advance
\* pos.
_acceptReturned(c, r) ==
    [c EXCEPT !.pos = IF r.dp < 0 THEN c.pos ELSE c.pos + r.dp,
              !.perr = _max(c.perr, c.pos + r.de),
              !.ok = r.dp >= 0,
              !.p = [r.p EXCEPT !.accLog[Len(r.p.accLog)].perr =
                                     _max(c.perr, c.pos + r.de)]]

\* _accept: call the rule's Accepts at pos.
_accept(rule, c, st) == _acceptReturned(c, ruleAccepts(c.p, rule, c.pos, st.pd))

\* _node, given what the rule's Node returned (r): append the kid, move pos.
_nodeReturned(c, r) ==
    IF r.node = Nil THEN [c EXCEPT !.ok = FALSE, !.p = r.p]
    ELSE [c EXCEPT !.kids = Append(c.kids, r.node), !.pos = r.pos, !.p = r.p]

\* _node: call the rule's Node at pos.
_node(rule, c) == _nodeReturned(c, ruleNode(c.p, rule, c.pos))

\* _fail, given what the rule's Fail returned (r): append a non-empty kid,
\* move pos.
_failKids(c, r) ==
    IF r.failure.Want # "" \/ Len(r.failure.Kids) > 0
    THEN Append(c.kids, r.failure) ELSE c.kids

_failReturned(c, r) ==
    IF r.pos < 0 THEN [c EXCEPT !.kids = _failKids(c, r), !.ok = FALSE, !.p = r.p]
    ELSE [c EXCEPT !.kids = _failKids(c, r), !.pos = r.pos, !.p = r.p]

\* _fail: call the rule's Fail at pos.
_fail(rule, c, st) == _failReturned(c, ruleFail(c.p, rule, c.pos, st.errPos))

\* The Action pass, given what the rule's Action returned (r): n == nil goes
\* to Fail; else the target gets *n and pos = p.
actionReturned(c, r, st) ==
    IF r.n = Nil THEN [c EXCEPT !.ok = FALSE, !.p = r.p]
    ELSE [c EXCEPT !.node = IF st.node THEN assign(@.type, r.n) ELSE @,
                   !.pos = r.pos, !.p = r.p]

identTemplate(e, c, st) ==
    CASE st.pass = "Accepts" -> _accept(e.rule, c, st)
      [] st.pass = "Node" -> _node(e.rule, c)
      [] st.pass = "Fail" -> _fail(e.rule, c, st)
      [] st.pass = "Action" -> actionReturned(c, ruleAction(c.p, e.rule, c.pos), st)

\* What the failing branch of a terminal does before "goto Fail".
terminalFail(e, c, st) ==
    CASE st.pass = "Accepts" -> [c EXCEPT !.perr = _max(c.perr, c.pos), !.ok = FALSE]
      [] st.pass = "Fail" ->
            IF c.pos >= st.errPos
            THEN [c EXCEPT !.kids = Append(@, [Name |-> "", Pos |-> c.pos,
                                               Want |-> String(e), Kids |-> <<>>]),
                           !.ok = FALSE]
            ELSE [c EXCEPT !.ok = FALSE]
      [] OTHER -> [c EXCEPT !.ok = FALSE]

terminalMatch(c, st, w) ==
    IF st.pass = "Node"
    THEN [c EXCEPT !.kids = Append(@, _leaf(c.pos, c.pos + w)), !.pos = c.pos + w]
    ELSE IF st.pass = "Action" /\ st.node
    THEN [c EXCEPT !.node = assign(@.type, [val |-> SubSeq(text, c.pos + 1, c.pos + w)]),
                   !.pos = c.pos + w]
    ELSE [c EXCEPT !.pos = c.pos + w]

literalTemplate(e, c, st) ==
    LET n == Len(e.Text)
    IN IF Len(text) - c.pos < n \/ SubSeq(text, c.pos + 1, c.pos + n) # e.Text
       THEN terminalFail(e, c, st)
       ELSE terminalMatch(c, st, n)

\* _next that does not see the end of the text.
_nextPastEnd(pos) == 1

\* _next decodes one rune: the texts are ASCII, so its width is 1, or 0 at
\* the end of the text.
_next(pos) == IF pos >= Len(text) THEN 0 ELSE 1

anyTemplate(e, c, st) ==
    LET w == _next(c.pos)
    IN IF w = 0 THEN terminalFail(e, c, st) ELSE terminalMatch(c, st, w)

\* sequenceTemplate: c1 is the context after the code of es[i].
sequenceRest(es, i, c1, st) ==
    IF c1.ok THEN sequenceTemplate(es, i + 1, c1, st) ELSE c1

sequenceTemplate(es, i, c, st) ==
    IF i > Len(es) THEN c ELSE sequenceRest(es, i, gen(es[i], c, st), st)

\* choiceTemplate: a branch that can fail is followed by "goto ok" and by
\* its fail label, which restores pos (and node.Kids in the Node pass); a
\* branch that cannot fail is followed by neither, so control runs on into
\* the code of the next branch.  chLog gets an entry when a branch's code is
\* entered (branch i) and one when control leaves it (branch -i).
choiceRestore(c, st, pos0, nkids) ==
    IF st.pass = "Node"
    THEN [c EXCEPT !.pos = pos0, !.kids = SubSeq(c.kids, 1, nkids)]
    ELSE [c EXCEPT !.pos = pos0]

\* The fail label of a branch, with path set back to what it was at pos0;
\* in the Action pass the target is set back to node0, the zero value.
choiceFail(c, st, snap) ==
    IF st.pass = "Action" /\ st.node
    THEN [choiceRestore(c, st, snap.pos0, snap.nkids) EXCEPT
             !.path = snap.path, !.node = assign(@.type, zero(snap.type))]
    ELSE [choiceRestore(c, st, snap.pos0, snap.nkids) EXCEPT !.path = snap.path]

choiceLog(c, st, snap, i, ok) ==
    [c EXCEPT !.p.chLog = Append(@,
        [pass |-> st.pass, pos0 |-> snap.pos0, nkids |-> snap.nkids,
         branch |-> i, pos |-> c.pos, kids |-> Len(c.kids), ok |-> ok])]

\* c2 is the context when control leaves the code of branch i.
choiceAfter(es, i, c2, st, snap) ==
    IF CanFail(es[i])
    THEN IF c2.ok THEN c2
         ELSE IF i = Len(es) THEN choiceFail(c2, st, snap)
         ELSE choiceBranches(es, i + 1,
                 [choiceFail(c2, st, snap) EXCEPT !.ok = TRUE],
                 st, snap)
    ELSE IF i = Len(es) THEN c2
         ELSE choiceBranches(es, i + 1, c2, st, snap)

choiceLeave(es, i, c1, st, snap) ==
    choiceAfter(es, i, choiceLog(c1, st, snap, 0 - i, c1.ok), st, snap)

choiceBranches(es, i, c, st, snap) ==
    choiceLeave(es, i, gen(es[i], choiceLog(c, st, snap, i, TRUE), st), st, snap)

choiceTemplate(e, c, st) ==
    choiceBranches(e.Exprs, 1, c, st,
                   [pos0 |-> c.pos, nkids |-> Len(c.kids), path |-> c.path,
                    type |-> IF st.pass = "Action" THEN Type(e) ELSE ""])

\* predExprTemplate.  matched: control reaches the ok label.
predWant(e, c) == [Name |-> "", Pos |-> c.pos, Want |-> String(e), Kids |-> <<>>]

\* predExprTemplate's exits without the restore of pos: pos stays where the
\* code of e.Expr left it.
predAfterKeepsPos(e, c, c1, st) ==
    IF (IF e.Neg THEN ~c1.ok ELSE c1.ok)
    THEN CASE st.pass = "Accepts" -> [c1 EXCEPT !.perr = c.perr, !.ok = TRUE]
           [] OTHER -> [c1 EXCEPT !.kids = SubSeq(@, 1, Len(c.kids)), !.ok = TRUE]
    ELSE [c1 EXCEPT !.ok = FALSE]

\* c1 is the context after the code of e.Expr, run under one more predicate.
predAfter(e, c, c1, st) ==
    IF (IF e.Neg THEN ~c1.ok ELSE c1.ok)
    THEN CASE st.pass = "Accepts" ->
                 [c1 EXCEPT !.pos = c.pos, !.perr = c.perr, !.ok = TRUE]
           [] OTHER ->
                 [c1 EXCEPT !.pos = c.pos, !.kids = SubSeq(@, 1, Len(c.kids)),
                            !.ok = TRUE]
    ELSE CASE st.pass = "Accepts" ->
                 [c1 EXCEPT !.pos = c.pos, !.perr = _max(c.perr, c.pos), !.ok = FALSE]
           [] st.pass = "Node" ->
                 [c1 EXCEPT !.pos = c.pos,
                            !.kids = IF e.Neg THEN SubSeq(@, 1, Len(c.kids)) ELSE @,
                            !.ok = FALSE]
           [] st.pass = "Fail" ->
                 [c1 EXCEPT !.pos = c.pos,
                            !.kids = IF c.pos >= st.errPos
                                     THEN Append(SubSeq(@, 1, Len(c.kids)), predWant(e, c))
                                     ELSE SubSeq(@, 1, Len(c.kids)),
                            !.ok = FALSE]
           [] st.pass = "Action" -> [c1 EXCEPT !.pos = c.pos, !.ok = FALSE]

\* c is the context the predicate was entered with, c1 the one after the
\* code of e.Expr and c2 the one with which control leaves the predicate.
predLog(e, c, c1, c2, st) ==
    [c2 EXCEPT !.p.predLog = Append(@,
        [pass |-> st.pass, neg |-> e.Neg, matched |-> c2.ok,
         pos0 |-> c.pos, perr0 |-> c.perr, kids0 |-> c.kids,
         pos1 |-> c1.pos, perr1 |-> c1.perr, kids1 |-> c1.kids,
         pos |-> c2.pos, perr |-> c2.perr, kids |-> c2.kids])]

predLeave(e, c, c1, st) == predLog(e, c, c1, predAfter(e, c, c1, st), st)

predExprTemplate(e, c, st) ==
    predLeave(e, c, gen(e.Expr, c, [st EXCEPT !.pd = @ + 1]), st)

\* What the fail label of an optional or repeated subexpression does:
\* restore pos (and node.Kids in the Node pass) and go on.
backtrack(c, c1, st) ==
    IF st.pass = "Node"
    THEN [c1 EXCEPT !.pos = c.pos, !.kids = SubSeq(@, 1, Len(c.kids)),
                    !.path = c.path, !.ok = TRUE]
    ELSE [c1 EXCEPT !.pos = c.pos, !.path = c.path, !.ok = TRUE]

\* The loop `for { pos0 := pos; <subexpression>; continue; fail: ... break }`
\* after one run c1 of the subexpression from c.  A run that ends at the
\* position it began at leaves the loop where it was, with the memo table
\* filled: every later run does the same, and the loop is never left.
repIter(e, c, c1, st) ==
    IF ~c1.ok THEN backtrack(c, c1, st)
    ELSE IF c1.pos = c.pos THEN [c1 EXCEPT !.ok = FALSE, !.p.hang = TRUE]
    ELSE repLoop(e, c1, st)

repLoop(e, c, st) == repIter(e, c, gen(e.Expr, c, st), st)

repFirst(e, c1, st) == IF c1.ok THEN repLoop(e, c1, st) ELSE c1

repExprTemplate(e, c, st) ==
    IF e.Op = "+" THEN repFirst(e, gen(e.Expr, c, st), st) ELSE repLoop(e, c, st)

\* optExprTemplate, for a subexpression that can fail.
optAfter(c, c1, st) == IF c1.ok THEN c1 ELSE backtrack(c, c1, st)

optExprTemplate(e, c, st) == optAfter(c, gen(e.Expr, c, st), st)

subAfter(c, c1, st) ==
    IF st.pass = "Node" /\ c1.ok
    THEN [c1 EXCEPT !.kids = Append(SubSeq(@, 1, Len(c.kids)),
                                    _sub(c.pos, c1.pos,
                                         SubSeq(@, Len(c.kids) + 1, Len(@))))]
    ELSE c1

subExprTemplate(e, c, st) == subAfter(c, gen(e.Expr, c, st), st)

\* labelExprTemplate: c1 is the context after the code of e.Expr, entered at
\* c.pos; at its end labels[N] = parser.text[pos0:pos].
labelAfter(e, c, c1) ==
    IF c1.ok
    THEN [c1 EXCEPT !.labels[e.N + 1] = SubSeq(text, c.pos + 1, c1.pos),
                    !.path[e.N + 1] = SubSeq(text, c.pos + 1, c1.pos)]
    ELSE c1

\* labelAfter when the target is not the label's: the target keeps its value.
labelKeeps(c, c1, st) == IF st.node THEN c1 ELSE [c1 EXCEPT !.node = c.node]

\* In the Action pass the subexpression's value goes to the label's variable
\* and from there to the target, if there is one.
labelExprTemplate(e, c, st) ==
    IF st.pass = "Action"
    THEN labelKeeps(c, labelAfter(e, c, gen(e.Expr,
                              [c EXCEPT !.node = IF st.node THEN @ ELSE zero(Type(e.Expr))],
                              [st EXCEPT !.node = TRUE])), st)
    ELSE labelAfter(e, c, gen(e.Expr, c, st))

\* The Go expression of a code predicate, on the strings of the labels in
\* its scope.
Code(code, args) ==
    CASE code = "x == \"\"" -> args[1] = <<>>
      [] code = "true" -> TRUE

\* The arguments of the call: labels[N] for each label in scope.
codeArgs(e, labels) == [k \in 1..Len(e.Labels) |-> labels[e.Labels[k] + 1]]

codeLog(e, c, st) ==
    [c EXCEPT !.p.codeLog = Append(@,
        [pass |-> st.pass, pos |-> c.pos, code |-> e.Code,
         args |-> codeArgs(e, c.labels), path |-> codeArgs(e, c.path)])]

\* What predCodeTemplate does when the code's result sends it to Fail.
predCodeFail(e, c, st) ==
    CASE st.pass = "Accepts" -> [c EXCEPT !.perr = _max(c.perr, c.pos), !.ok = FALSE]
      [] st.pass = "Fail" ->
            IF c.pos >= st.errPos
            THEN [c EXCEPT !.kids = Append(@, [Name |-> "", Pos |-> c.pos,
                                               Want |-> (IF e.Neg THEN "!{" ELSE "&{")
                                                        \o e.Code \o "}",
                                               Kids |-> <<>>]),
                           !.ok = FALSE]
            ELSE [c EXCEPT !.ok = FALSE]
      [] OTHER -> [c EXCEPT !.ok = FALSE]

predCodeTemplate(e, c, st) ==
    IF Code(e.Code, codeArgs(e, c.labels)) = e.Neg
    THEN predCodeFail(e, codeLog(e, c, st), st)
    ELSE IF st.pass = "Action" /\ st.node
    THEN [codeLog(e, c, st) EXCEPT !.node = assign(@.type, [val |-> <<>>])]
    ELSE codeLog(e, c, st)

\* The Go code of an action, on the values of the labels in its scope: what
\* it returns.
Return(code, args) ==
    CASE code = "return nil" -> "nil"
      [] code = "return (*T)(nil)" -> "nil"
      [] code = "return \"v\"" -> <<"v">>
      [] code = "return x" -> args[1]

\* actionTemplate: c1 is the context after the code of e.Expr, which was
\* entered at c.pos and has no target.  The action's code runs on start, end
\* and the labels, and its value goes to the target if there is one.  In the
\* other passes the template is the code of e.Expr alone.
actionRuns(e, c, c1, st) ==
    IF ~c1.ok THEN c1
    ELSE [c1 EXCEPT
            !.node = IF st.node
                     THEN assign(@.type, [val |-> Return(e.Code, codeArgs(e, c1.labels))])
                     ELSE @,
            !.p.actLog = Append(@, [ev |-> "code", code |-> e.Code,
                                    start |-> c.pos, end |-> c1.pos])]

actionTemplate(e, c, st) ==
    IF st.pass = "Action"
    THEN actionRuns(e, c, gen(e.Expr, c, [st EXCEPT !.node = FALSE]), st)
    ELSE gen(e.Expr, c, st)

gen(e, c, st) ==
    CASE e.t = "Literal" -> literalTemplate(e, c, st)
      [] e.t = "Any" -> anyTemplate(e, c, st)
      [] e.t = "Ident" -> identTemplate(e, c, st)
      [] e.t = "Sequence" -> sequenceTemplate(e.Exprs, 1, c, st)
      [] e.t = "Choice" -> choiceTemplate(e, c, st)
      [] e.t = "PredExpr" -> predExprTemplate(e, c, st)
      [] e.t = "RepExpr" -> repExprTemplate(e, c, st)
      [] e.t = "OptExpr" -> optExprTemplate(e, c, st)
      [] e.t = "SubExpr" -> subExprTemplate(e, c, st)
      [] e.t = "LabelExpr" -> labelExprTemplate(e, c, st)
      [] e.t = "PredCode" -> predCodeTemplate(e, c, st)
      [] e.t = "Action" -> actionTemplate(e, c, st)

\* ruleAccepts: the generated <Rule>Accepts(parser, start).
AcceptsReturn(r, rule, start, hit, pd) ==
    [r EXCEPT !.p.accLog = Append(@, [rule |-> rule, start |-> start,
                                      dp |-> r.dp, de |-> r.de,
                                      hit |-> hit, pd |-> pd,
                                      perr |-> start + r.de])]

\* c1 is the context after the code of the rule's expression: at its end
\* (ok) or at the fail label.
AcceptsAfter(c1, rule, start, pd) ==
    IF c1.ok
    THEN AcceptsReturn(
             _memoize(c1.p, rule, start, c1.pos,
                      IF Rules[rule].ErrorName # "" THEN start ELSE c1.perr),
             rule, start, FALSE, pd)
    ELSE AcceptsReturn(_memoize(c1.p, rule, start, -1, c1.perr),
                       rule, start, FALSE, pd)

AcceptsRun(p, rule, start, pd) ==
    AcceptsAfter(
        gen(Rules[rule].Expr,
            [pos |-> start, perr |-> -1, kids |-> <<>>, ok |-> TRUE,
             labels |-> stringLabels(rule), path |-> stringLabels(rule),
             p |-> [p EXCEPT !.execs[start][rule] = @ + 1]],
            [pass |-> "Accepts", errPos |-> 0, pd |-> pd]),
        rule, start, pd)

AcceptsMemo(p, m, rule, start, pd) ==
    IF m.ok THEN AcceptsReturn([dp |-> m.dp, de |-> m.de, p |-> p], rule, start, TRUE, pd)
    ELSE AcceptsRun(p, rule, start, pd)

ruleAccepts(p, rule, start, pd) == AcceptsMemo(p, _memo(p, rule, start), rule, start, pd)

\* ruleNode: the generated <Rule>Node(parser, start).
NodeReturn(r, rule, start, hit) ==
    [r EXCEPT !.p.nodeLog = Append(@, [rule |-> rule, start |-> start,
                                       pos |-> r.pos, node |-> r.node, hit |-> hit])]

\* The cached return, forgetting that the cell holds dp + 1.
nodeCachedOffByOne(p, start, dp, node) == [pos |-> start + dp, node |-> node, p |-> p]

\* The return of a cached node.
nodeCached(p, start, dp, node) == [pos |-> start + (dp - 1), node |-> node, p |-> p]

NodeBuilt(c1, rule, start) ==
    [Name |-> Rules[rule].Name, Text |-> SubSeq(text, start + 1, c1.pos), Kids |-> c1.kids]

\* c1 is the context after the code of the rule's expression.
NodeAfter(c1, rule, start) ==
    IF c1.ok
    THEN NodeReturn([pos |-> c1.pos, node |-> NodeBuilt(c1, rule, start),
                     p |-> [c1.p EXCEPT !.node[start][rule] = NodeBuilt(c1, rule, start)]],
                    rule, start, FALSE)
    ELSE NodeReturn([pos |-> -1, node |-> Nil, p |-> c1.p], rule, start, FALSE)

NodeRun(p, rule, start) ==
    NodeAfter(
        gen(Rules[rule].Expr,
            [pos |-> start, perr |-> -1, kids |-> <<>>, ok |-> TRUE,
             labels |-> stringLabels(rule), path |-> stringLabels(rule), p |-> p],
            [pass |-> "Node", errPos |-> 0, pd |-> 0]),
        rule, start)

ruleNode(p, rule, start) ==
    IF p.deltaPos[start][rule] < 0
    THEN NodeReturn([pos |-> -1, node |-> Nil, p |-> p], rule, start, FALSE)
    ELSE IF p.node[start][rule] # Nil
    THEN NodeReturn(nodeCached(p, start, p.deltaPos[start][rule], p.node[start][rule]),
                    rule, start, TRUE)
    ELSE NodeRun(p, rule, start)

\* _failMemo: failure = Nil tells the caller to run the rule's expression.
_failMemo(p, rule, start, errPos) ==
    LET dp == p.deltaPos[start][rule]
        de == p.deltaErr[start][rule]
        f == p.fail[start][rule]
    IN IF start > p.lastFail THEN [pos |-> -1, failure |-> EmptyFail, short |-> TRUE]
       ELSE IF start + (de - 1) < errPos
       THEN IF dp > 0 THEN [pos |-> start + (dp - 1), failure |-> EmptyFail, short |-> TRUE]
            ELSE [pos |-> -1, failure |-> EmptyFail, short |-> TRUE]
       ELSE IF dp < 0 /\ f # Nil THEN [pos |-> -1, failure |-> f, short |-> FALSE]
       ELSE IF dp > 0 /\ f # Nil THEN [pos |-> start + (dp - 1), failure |-> f, short |-> FALSE]
       ELSE [pos |-> start, failure |-> Nil, short |-> FALSE]

\* ruleFail: the generated <Rule>Fail(parser, start, errPos).
FailReturn(r, rule, start, errPos, how) ==
    [r EXCEPT !.p.failLog = Append(@, [rule |-> rule, start |-> start, errPos |-> errPos,
                                       pos |-> r.pos, failure |-> r.failure, how |-> how])]

FailBuilt(c1, rule, start) ==
    [Name |-> Rules[rule].Name, Pos |-> start,
     Want |-> IF Rules[rule].ErrorName # "" /\ ~c1.ok THEN Rules[rule].ErrorName ELSE "",
     Kids |-> IF Rules[rule].ErrorName # "" THEN <<>> ELSE c1.kids]

\* c1 is the context after the code of the rule's expression.
FailAfter(c1, rule, start, errPos) ==
    FailReturn([pos |-> IF c1.ok THEN c1.pos ELSE -1,
                failure |-> FailBuilt(c1, rule, start),
                p |-> [c1.p EXCEPT !.fail[start][rule] = FailBuilt(c1, rule, start)]],
               rule, start, errPos, "run")

FailRun(p, m, rule, start, errPos) ==
    FailAfter(
        gen(Rules[rule].Expr,
            [pos |-> m.pos, perr |-> -1, kids |-> <<>>, ok |-> TRUE,
             labels |-> stringLabels(rule), path |-> stringLabels(rule), p |-> p],
            [pass |-> "Fail", errPos |-> errPos, pd |-> 0]),
        rule, start, errPos)

FailMemo(p, m, rule, start, errPos) ==
    IF m.failure # Nil
    THEN FailReturn([pos |-> m.pos, failure |-> m.failure, p |-> p], rule, start, errPos,
                    IF m.short THEN "short" ELSE "cached")
    ELSE FailRun(p, m, rule, start, errPos)

ruleFail(p, rule, start, errPos) ==
    FailMemo(p, _failMemo(p, rule, start, errPos), rule, start, errPos)

\* ruleAction: the generated <Rule>Action(parser, start).  n is the pointer
\* it returns: Nil, or the value it points to.
ActionReturn(r, rule, start, hit) ==
    [r EXCEPT !.p.actLog = Append(@, [ev |-> "return", rule |-> rule, start |-> start,
                                      pos |-> r.pos, n |-> r.n, hit |-> hit])]

\* The return of a cached value: n.(T) and its address.
actionCached(p, rule, start, dp, n) ==
    [pos |-> start + (dp - 1), n |-> assign(Type(Rules[rule].Expr), n), p |-> p]

\* c1 is the context after the code of the rule's expression.
ActionAfter(c1, rule, start) ==
    IF c1.ok
    THEN ActionReturn([pos |-> c1.pos, n |-> c1.node,
                       p |-> [c1.p EXCEPT !.act[start][rule] = iface(c1.node)]],
                      rule, start, FALSE)
    ELSE ActionReturn([pos |-> -1, n |-> Nil, p |-> c1.p], rule, start, FALSE)

ActionRun(p, rule, start) ==
    ActionAfter(
        gen(Rules[rule].Expr,
            [pos |-> start, perr |-> -1, kids |-> <<>>, ok |-> TRUE,
             labels |-> stringLabels(rule), path |-> stringLabels(rule),
             node |-> zero(Type(Rules[rule].Expr)), p |-> p],
            [pass |-> "Action", errPos |-> 0, pd |-> 0, node |-> TRUE]),
        rule, start)

ruleAction(p, rule, start) ==
    IF p.deltaPos[start][rule] < 0
    THEN ActionReturn([pos |-> -1, n |-> Nil, p |-> p], rule, start, FALSE)
    ELSE IF p.act[start][rule] # Nil
    THEN ActionReturn(actionCached(p, rule, start, p.deltaPos[start][rule],
                                   p.act[start][rule]),
                      rule, start, TRUE)
    ELSE ActionRun(p, rule, start)

\* ------------------------------------------------------ peg.LeafFails
\* LeafFails: the fails of the tree without kids that have the greatest Pos,
\* in the order of the walk.  A node is walked once: seen holds the nodes
\* walked, a rule's node as its name and position (the parser keeps one node
\* per rule and start), while the nodes of terminals and predicates, which
\* have no name, are made anew wherever they occur.
RECURSIVE walk(_, _)
RECURSIVE walkKids(_, _, _)
walkKids(kids, i, w) ==
    IF i > Len(kids) THEN w ELSE walkKids(kids, i + 1, walk(kids[i], w))

walkLeaf(n, w) ==
    CASE n.Pos > w.pos -> [w EXCEPT !.pos = n.Pos, !.fails = <<n>>]
      [] n.Pos = w.pos -> [w EXCEPT !.fails = Append(@, n)]
      [] OTHER -> w

walk(n, w) ==
    IF n.Name # "" /\ <<n.Name, n.Pos>> \in w.seen THEN w
    ELSE IF Len(n.Kids) = 0
    THEN walkLeaf(n, [w EXCEPT !.seen = IF n.Name # "" THEN @ \cup {<<n.Name, n.Pos>>} ELSE @])
    ELSE walkKids(n.Kids, 1,
                  [w EXCEPT !.seen = IF n.Name # "" THEN @ \cup {<<n.Name, n.Pos>>} ELSE @])

LeafFails(node) == walk(node, [pos |-> -1, fails |-> <<>>, seen |-> {}]).fails

\* ------------------------------------------------------------ the machine
ClearLogs(p) ==
    [p EXCEPT !.memoLog = <<>>, !.accLog = <<>>, !.chLog = <<>>,
              !.predLog = <<>>, !.nodeLog = <<>>, !.failLog = <<>>, !.codeLog = <<>>,
              !.actLog = <<>>]

Init ==
    /\ gr \in 1..Len(Grammars)
    /\ text \in Texts
    /\ parser = _NewParser(text, Len(Grammars[gr]))
    /\ ncalls = 0
    /\ last = [op |-> "NewParser"]
    /\ grammar = <<>>
    /\ checks = <<>>
    /\ lexer = [in |-> <<>>, n |-> 0, eof |-> FALSE, out |-> <<>>]

\* A client calls <Rule>Accepts(parser, start) for a rule and a start.  A
\* call that gets into a loop it never leaves does not return, and the client
\* makes no further call.
Accepts(rule, start) ==
    /\ ncalls < MaxCalls
    /\ last.op # "Hang"
    /\ LET r == ruleAccepts(ClearLogs(parser), rule, start, 0)
       IN IF r.p.hang
          THEN /\ parser' = parser
               /\ last' = [op |-> "Hang", rule |-> rule, start |-> start]
          ELSE /\ parser' = r.p
               /\ last' = [op |-> "Accepts", rule |-> rule, start |-> start,
                           dp |-> r.dp, de |-> r.de]
    /\ ncalls' = ncalls + 1
    /\ UNCHANGED <<gr, text, grammar, checks, lexer>>

\* A client calls <Rule>Node(parser, start) once the Accepts pass has been
\* run for the rule at that start.
Node(rule, start) ==
    /\ ncalls < MaxCalls
    /\ last.op # "Hang"
    /\ parser.deltaPos[start][rule] # 0
    /\ LET r == ruleNode(ClearLogs(parser), rule, start)
       IN /\ parser' = r.p
          /\ last' = [op |-> "Node", rule |-> rule, start |-> start,
                      pos |-> r.pos, node |-> r.node]
    /\ ncalls' = ncalls + 1
    /\ UNCHANGED <<gr, text, grammar, checks, lexer>>

\* A client whose last call <Rule>Accepts(parser, start) did not accept calls
\* <Rule>Fail(parser, start, perr) with the error position it returned.
Fail(rule, start) ==
    /\ ncalls < MaxCalls
    /\ last.op = "Accepts" /\ last.rule = rule /\ last.start = start /\ last.dp < 0
    /\ LET errPos == start + last.de
           r == ruleFail(ClearLogs(parser), rule, start, errPos)
       IN /\ parser' = r.p
          /\ last' = [op |-> "Fail", rule |-> rule, start |-> start, errPos |-> errPos,
                      pos |-> r.pos, failure |-> r.failure]
    /\ ncalls' = ncalls + 1
    /\ UNCHANGED <<gr, text, grammar, checks, lexer>>

Next ==
    \/ \E rule \in 1..N, start \in 0..Len(text) : Accepts(rule, start)
    \/ \E rule \in 1..N, start \in 0..Len(text) : Node(rule, start)
    \/ \E rule \in 1..N, start \in 0..Len(text) : Fail(rule, start)

Spec == Init /\ [][Next]_vars

\* The parsers generated from the grammars with code.
InitCode ==
    /\ gr \in Len(Grammars) + 1 .. Len(AllGrammars)
    /\ text \in Texts
    /\ parser = _NewParser(text, Len(AllGrammars[gr]))
    /\ ncalls = 0
    /\ last = [op |-> "NewParser"]
    /\ grammar = <<>>
    /\ checks = <<>>
    /\ lexer = [in |-> <<>>, n |-> 0, eof |-> FALSE, out |-> <<>>]

\* A client calls <Rule>Action(parser, start) once the Accepts pass has been
\* run for the rule at that start.
Action(rule, start) ==
    /\ ncalls < MaxCalls
    /\ parser.deltaPos[start][rule] # 0
    /\ LET r == ruleAction(ClearLogs(parser), rule, start)
       IN /\ parser' = r.p
          /\ last' = [op |-> "Action", rule |-> rule, start |-> start,
                      pos |-> r.pos, n |-> r.n]
    /\ ncalls' = ncalls + 1
    /\ UNCHANGED <<gr, text, grammar, checks, lexer>>

NextCode ==
    \/ Next
    \/ \E rule \in 1..N, start \in 0..Len(text) : Action(rule, start)

SpecCode == InitCode /\ [][NextCode]_vars

\* ================================================================ Check
\* The semantic check of a grammar (check.go): template expansion, the rule
\* map, the left-recursion pass, the binding of identifiers and labels, and
\* the error accumulator (error.go).

\* --------------------------------------------------------- grammar sources
\* A grammar source is the list of rules the front-end hands to Check, one
\* rule per line; every name, argument and label carries the location of its
\* first rune (line and column both counted from 1, as in check_test.go).
Loc(l, c) == [Line |-> l, Col |-> c]

Less(l, j) == IF l.Line = j.Line THEN l.Col < j.Col ELSE l.Line < j.Line

TextAt(l, c, s) == [str |-> s, begin |-> Loc(l, c)]

NameAt(l, c, s, args) == [Name |-> TextAt(l, c, s), Args |-> args]

\* rule = 0 is the nil rule pointer of an identifier that is not bound.
IdentAt(l, c, s, args) == [t |-> "Ident", Name |-> NameAt(l, c, s, args), rule |-> 0]

LabelExpr(l, c, s, e) == [t |-> "LabelExpr", Label |-> TextAt(l, c, s), Expr |-> e, N |-> 0]

RuleAt(l, s, params, e) ==
    [Name |-> NameAt(l, 1, s, params), Expr |-> e, N |-> 0, Labels |-> <<>>]

RECURSIVE JoinArgs(_)
JoinArgs(args) ==
    IF Len(args) = 1 THEN args[1].str
    ELSE args[1].str \o ", " \o JoinArgs(Tail(args))

\* Name.String: the display name, `Name<a1, ..., an>` when there are arguments.
NameString(n) ==
    IF Len(n.Args) = 0 THEN n.Name.str
    ELSE n.Name.str \o "<" \o JoinArgs(n.Args) \o ">"

Lt == Literal(<<"t">>)

\* The rules grammars are made of, written on line l.
PoolRule(k, l) ==
    CASE k = 1 ->  \* A <- A
           RuleAt(l, "A", <<>>, IdentAt(l, 6, "A", <<>>))
      [] k = 2 ->  \* A <- B
           RuleAt(l, "A", <<>>, IdentAt(l, 6, "B", <<>>))
      [] k = 3 ->  \* B <- A
           RuleAt(l, "B", <<>>, IdentAt(l, 6, "A", <<>>))
      [] k = 4 ->  \* B <- "b" A
           RuleAt(l, "B", <<>>, Sequence(<<Lb, IdentAt(l, 10, "A", <<>>)>>))
      [] k = 5 ->  \* A <- "a"? B
           RuleAt(l, "A", <<>>, Sequence(<<OptExpr(La), IdentAt(l, 11, "B", <<>>)>>))
      [] k = 6 ->  \* B <- C / "b"
           RuleAt(l, "B", <<>>, Choice(<<IdentAt(l, 6, "C", <<>>), Lb>>))
      [] k = 7 ->  \* C <- "c"
           RuleAt(l, "C", <<>>, Lc)
      [] k = 8 ->  \* C <- B
           RuleAt(l, "C", <<>>, IdentAt(l, 6, "B", <<>>))
      [] k = 9 ->  \* A <- A / B
           RuleAt(l, "A", <<>>, Choice(<<IdentAt(l, 6, "A", <<>>), IdentAt(l, 10, "B", <<>>)>>))
      [] k = 10 -> \* T<x> <- x
           RuleAt(l, "T", <<TextAt(l, 3, "x")>>, IdentAt(l, 9, "x", <<>>))
      [] k = 11 -> \* A <- T<C>
           RuleAt(l, "A", <<>>, IdentAt(l, 6, "T", <<TextAt(l, 8, "C")>>))
      [] k = 12 -> \* B <- "b" T<C> T<C>
           RuleAt(l, "B", <<>>, Sequence(<<Lb, IdentAt(l, 10, "T", <<TextAt(l, 12, "C")>>),
                                           IdentAt(l, 15, "T", <<TextAt(l, 17, "C")>>)>>))
      [] k = 13 -> \* A <- "a" T<C>?
           RuleAt(l, "A", <<>>, Sequence(<<La, OptExpr(IdentAt(l, 10, "T", <<TextAt(l, 12, "C")>>))>>))
      [] k = 14 -> \* T<x> <- "t" U<x>
           RuleAt(l, "T", <<TextAt(l, 3, "x")>>,
                  Sequence(<<Lt, IdentAt(l, 13, "U", <<TextAt(l, 15, "x")>>)>>))
      [] k = 15 -> \* U<y> <- y
           RuleAt(l, "U", <<TextAt(l, 3, "y")>>, IdentAt(l, 9, "y", <<>>))
      [] k = 16 -> \* A <- T<C, C>
           RuleAt(l, "A", <<>>, IdentAt(l, 6, "T", <<TextAt(l, 8, "C"), TextAt(l, 11, "C")>>))
      [] k = 17 -> \* T<x, x> <- x
           RuleAt(l, "T", <<TextAt(l, 3, "x"), TextAt(l, 6, "x")>>, IdentAt(l, 12, "x", <<>>))
      [] k = 18 -> \* A <- a:"a" a:"b"
           RuleAt(l, "A", <<>>, Sequence(<<LabelExpr(l, 6, "a", La), LabelExpr(l, 12, "a", Lb)>>))
      [] k = 19 -> \* A <- a:"a" / a:"b"
           RuleAt(l, "A", <<>>, Choice(<<LabelExpr(l, 6, "a", La), LabelExpr(l, 14, "a", Lb)>>))
      [] k = 20 -> \* B <- b:(a:"a") c:"c"
           RuleAt(l, "B", <<>>, Sequence(<<LabelExpr(l, 6, "b", SubExpr(LabelExpr(l, 9, "a", La))),
                                           LabelExpr(l, 16, "c", Lc)>>))
      [] k = 21 -> \* B <- Z
           RuleAt(l, "B", <<>>, IdentAt(l, 6, "Z", <<>>))
      [] k = 22 -> \* T <- "t"
           RuleAt(l, "T", <<>>, Lt)
      [] k = 23 -> \* B <- "b" T<A>
           RuleAt(l, "B", <<>>, Sequence(<<Lb, IdentAt(l, 10, "T", <<TextAt(l, 12, "A")>>)>>))
      [] k = 24 -> \* T<x> <- "t"
           RuleAt(l, "T", <<TextAt(l, 3, "x")>>, Lt)
      [] k = 25 -> \* A <- ("a"?)+ A
           RuleAt(l, "A", <<>>, Sequence(<<RepExpr(SubExpr(OptExpr(La)), "+"),
                                           IdentAt(l, 14, "A", <<>>)>>))
      [] k = 27 -> \* A <- ("a"?)* "b"
           RuleAt(l, "A", <<>>, Sequence(<<RepExpr(SubExpr(OptExpr(La)), "*"), Lb>>))
      [] k = 28 -> \* B <- (&"a")+ "a"
           RuleAt(l, "B", <<>>, Sequence(<<RepExpr(SubExpr(PredExpr(La, FALSE)), "+"), La>>))
      [] k = 26 -> \* B <- "b"* B
           RuleAt(l, "B", <<>>, Sequence(<<RepExpr(Lb, "*"), IdentAt(l, 11, "B", <<>>)>>))

Pool == 1..24

RECURSIVE PoolSeqs(_)
PoolSeqs(n) ==
    IF n = 0 THEN {<<>>}
    ELSE LET S == PoolSeqs(n - 1)
         IN S \cup {Append(s, k) : s \in {u \in S : Len(u) = n - 1}, k \in Pool}

\* Longer grammars: the template, repeated-invocation, nested-template and
\* multiple-error cases of TestCheck and of the template expander; and the
\* grammars with repetitions, whose rules are in none of the others.
Fixtures ==
    { <<25>>, <<26>>, <<25, 26>>, <<27, 28>>, <<10, 11, 7>>, <<1, 6, 8>>, <<10, 12, 7>>, <<10, 13, 7>>,
      <<14, 15, 11, 7>>, <<10, 16, 23>>, <<17, 16, 7>>, <<2, 6, 8>>,
      <<10, 23, 11, 7>>, <<20, 2, 7>>, <<10, 16, 23, 21>>, <<17, 16, 23, 21>>, <<21, 10, 16>> }

Source(ks) == [l \in 1..Len(ks) |-> PoolRule(ks[l], l)]

Sources == {Source(ks) : ks \in (PoolSeqs(MaxRules) \ {<<>>}) \cup Fixtures}

\* ------------------------------------------------------------------ errors
\* Err: an error located at the begin of loc.
Err(begin, msg) == [Begin |-> begin, Msg |-> msg]

\* Errors.add
add(errs, begin, msg) == Append(errs, Err(begin, msg))

\* The insertion sort that sort.Slice runs on a slice of fewer than 12
\* elements: element i moves down while it is Less than the one before it.
RECURSIVE insertionSortDown(_, _)
insertionSortDown(errs, j) ==
    IF j > 1 /\ Less(errs[j].Begin, errs[j - 1].Begin)
    THEN insertionSortDown([errs EXCEPT ![j] = errs[j - 1], ![j - 1] = errs[j]], j - 1)
    ELSE errs

RECURSIVE insertionSort(_, _)
insertionSort(errs, i) ==
    IF i > Len(errs) THEN errs
    ELSE insertionSort(insertionSortDown(errs, i), i + 1)

\* Errors.ret returning the errors in the order they were added.
retUnsorted(errs) == errs

\* Errors.ret: nil (the empty list) when nothing was added, else the errors
\* sorted by their begin location.
ret(errs) == insertionSort(errs, 2)

\* ------------------------------------------------------ template expansion
\* Walk: the expression itself, then its direct sub-expressions.
Walk(e) ==
    CASE e.t \in {"Choice", "Sequence"} -> <<e>> \o e.Exprs
      [] e.t \in {"LabelExpr", "PredExpr", "RepExpr", "OptExpr", "SubExpr"} -> <<e, e.Expr>>
      [] OTHER -> <<e>>

IsInvocation(e) == e.t = "Ident" /\ Len(e.Name.Args) > 0

\* templateInvocations: the invocations that Walk meets in the rules'
\* expressions, in the order met; tmps[n] is the sub-list with name n.
RECURSIVE templateInvocations(_)
templateInvocations(rules) ==
    IF rules = <<>> THEN <<>>
    ELSE SelectSeq(Walk(Head(rules).Expr), IsInvocation)
         \o templateInvocations(Tail(rules))

tmpsOf(tmps, n) == SelectSeq(tmps, LAMBDA id : id.Name.Name.str = n)

\* substitute: a clone of e in which each identifier whose display name is a
\* key of sub is replaced by the plain name sub gives, at the same place.
RECURSIVE substitute(_, _)
substitute(e, sub) ==
    CASE e.t \in {"Choice", "Sequence"} ->
           [e EXCEPT !.Exprs = [i \in 1..Len(e.Exprs) |-> substitute(e.Exprs[i], sub)]]
      [] e.t \in {"LabelExpr", "PredExpr", "RepExpr", "OptExpr", "SubExpr"} ->
           [e EXCEPT !.Expr = substitute(e.Expr, sub)]
      [] e.t = "Ident" ->
           IF NameString(e.Name) \in DOMAIN sub
           THEN [e EXCEPT !.Name = [Name |-> [str |-> sub[NameString(e.Name)],
                                              begin |-> e.Name.Name.begin],
                                    Args |-> <<>>]]
           ELSE e
      [] OTHER -> e

tmpNames(rules) ==
    {rules[i].Name.Name.str : i \in {j \in 1..Len(rules) : Len(rules[j].Name.Args) > 0}}

\* The seenParams loop: an error for each parameter that repeats an earlier one.
RECURSIVE paramErrs(_, _, _)
paramErrs(params, k, errs) ==
    IF k > Len(params) THEN errs
    ELSE paramErrs(params, k + 1,
            IF \E j \in 1..(k - 1) : params[j].str = params[k].str
            THEN add(errs, params[k].begin, "parameter " \o params[k].str \o " redefined")
            ELSE errs)

\* sub[r.Args[i]] = t.Args[i], a later i overwriting an earlier one.
subOf(params, args) ==
    [s \in {params[i].str : i \in 1..Len(params)} |->
        args[CHOOSE i \in 1..Len(params) :
                /\ params[i].str = s
                /\ \A j \in 1..Len(params) : params[j].str = s => j <= i].str]

\* The loop body when an error added earlier ends the expansion.
cloneUnlessError(r, t, x) ==
    IF x.errs # <<>> THEN x
    ELSE IF Len(t.Name.Args) # Len(r.Name.Args)
    THEN [x EXCEPT !.errs = add(@, t.Name.Name.begin,
             "template " \o NameString(r.Name) \o " argument count mismatch: got "
             \o ToString(Len(t.Name.Args)) \o ", expected " \o ToString(Len(r.Name.Args)))]
    ELSE [x EXCEPT !.expanded = Append(@,
             [r EXCEPT !.Name.Args = t.Name.Args,
                       !.Expr = substitute(r.Expr, subOf(r.Name.Args, t.Name.Args))])]

\* The body of the loop over the invocations t of template r.
clone(r, t, x) ==
    IF Len(t.Name.Args) # Len(r.Name.Args)
    THEN [x EXCEPT !.errs = add(@, t.Name.Name.begin,
             "template " \o NameString(r.Name) \o " argument count mismatch: got "
             \o ToString(Len(t.Name.Args)) \o ", expected " \o ToString(Len(r.Name.Args)))]
    ELSE [x EXCEPT !.expanded = Append(@,
             [r EXCEPT !.Name.Args = t.Name.Args,
                       !.Expr = substitute(r.Expr, subOf(r.Name.Args, t.Name.Args))])]

RECURSIVE clones(_, _, _, _)
clones(r, ts, k, x) ==
    IF k > Len(ts) THEN x
    ELSE clones(r, ts, k + 1, clone(r, ts[k], x))

\* expandTemplates appending a template itself next to its clones.
expandRuleKeepsTemplate(rules, tmps, r, x) ==
    IF Len(r.Name.Args) = 0
    THEN IF r.Name.Name.str \in tmpNames(rules)
         THEN [x EXCEPT !.errs = add(@, r.Name.Name.begin,
                                     "rule " \o r.Name.Name.str \o " redefined")]
         ELSE [x EXCEPT !.expanded = Append(@, r)]
    ELSE clones(r, tmpsOf(tmps, r.Name.Name.str), 1,
                [x EXCEPT !.errs = paramErrs(r.Name.Args, 1, @),
                          !.expanded = Append(@, r)])

\* The body of expandTemplates' loop over the rules.
expandRule(rules, tmps, r, x) ==
    IF Len(r.Name.Args) = 0
    THEN IF r.Name.Name.str \in tmpNames(rules)
         THEN [x EXCEPT !.errs = add(@, r.Name.Name.begin,
                                     "rule " \o r.Name.Name.str \o " redefined")]
         ELSE [x EXCEPT !.expanded = Append(@, r)]
    ELSE clones(r, tmpsOf(tmps, r.Name.Name.str), 1,
                [x EXCEPT !.errs = paramErrs(r.Name.Args, 1, @)])

RECURSIVE expandRules(_, _, _, _)
expandRules(rules, tmps, i, x) ==
    IF i > Len(rules) THEN x
    ELSE expandRules(rules, tmps, i + 1, expandRule(rules, tmps, rules[i], x))

\* expandTemplates: the expanded rules and the errors added.
expandTemplates(rules, errs) ==
    expandRules(rules, templateInvocations(rules), 1, [expanded |-> <<>>, errs |-> errs])

\* ---------------------------------------------------------------- rule map
\* ruleMap[name]: the last rule of that display name, 0 (nil) when none.
ruleMap(rules, name) ==
    IF \E i \in 1..Len(rules) : NameString(rules[i].Name) = name
    THEN CHOOSE i \in 1..Len(rules) :
            /\ NameString(rules[i].Name) = name
            /\ \A j \in 1..Len(rules) : NameString(rules[j].Name) = name => j <= i
    ELSE 0

\* Check's first loop: r.N = i (numbered from 1 here), and an error for each
\* rule whose display name an earlier rule has.
RECURSIVE redefined(_, _, _)
redefined(rules, i, errs) ==
    IF i > Len(rules) THEN errs
    ELSE redefined(rules, i + 1,
            IF \E j \in 1..(i - 1) : NameString(rules[j].Name) = NameString(rules[i].Name)
            THEN add(errs, rules[i].Name.Name.begin,
                     "rule " \o NameString(rules[i].Name) \o " redefined")
            ELSE errs)

numbered(rules) == [i \in 1..Len(rules) |-> [rules[i] EXCEPT !.N = i]]

\* --------------------------------------------------- the left-recursion pass
\* epsilon: whether the expression can match without consuming input; eps[i]
\* is the epsilon field of rule i, false until the pass has set it.
RECURSIVE epsilon(_, _, _)
epsilon(e, rules, eps) ==
    CASE e.t = "Choice" -> \E i \in 1..Len(e.Exprs) : epsilon(e.Exprs[i], rules, eps)
      [] e.t = "Sequence" -> \A i \in 1..Len(e.Exprs) : epsilon(e.Exprs[i], rules, eps)
      [] e.t \in {"LabelExpr", "SubExpr"} -> epsilon(e.Expr, rules, eps)
      [] e.t \in {"PredExpr", "OptExpr"} -> TRUE
      [] e.t = "RepExpr" -> e.Op = "*"
      [] e.t = "Ident" -> IF ruleMap(rules, NameString(e.Name)) = 0 THEN FALSE
                          ELSE eps[ruleMap(rules, NameString(e.Name))]
      [] OTHER -> FALSE

RECURSIVE cycleNames(_, _)
cycleNames(rules, cycle) ==
    IF cycle = <<>> THEN ""
    ELSE NameString(rules[Head(cycle)].Name) \o ", " \o cycleNames(rules, Tail(cycle))

\* The push failed: rule i is on the path p.  One error names the rules from
\* i's place on the path to its end and i again, located at rule i; every rule
\* of the cycle gets the placeholder type.
cycleFound(rules, i, p, st) ==
    LET from == CHOOSE k \in 1..Len(p) : p[k] = i
        cycle == SubSeq(p, from, Len(p))
    IN [st EXCEPT !.errs = add(@, rules[i].Name.Name.begin,
                               "left-recursion: " \o cycleNames(rules, cycle)
                               \o NameString(rules[i].Name)),
                  !.typ = @ \cup {cycle[k] : k \in 1..Len(cycle)}]

\* After the recursion: the rule's epsilon and type are set.
ruleLeftDone(rules, i, st) ==
    [st EXCEPT !.eps[i] = epsilon(rules[i].Expr, rules, st.eps), !.typ = @ \cup {i}]

\* checkLeft of a rule that is analysed again although its type is set.
hasTypeNever(i, st) == FALSE

\* Whether rule i has a type assigned: it was analysed or lies on a cycle.
hasType(i, st) == i \in st.typ

\* A sequence whose left edge runs over all of its factors.
leftGoesOnAlways(rules, e, all, st) == TRUE

\* Whether the left edge goes on behind e: always in a choice (all), in a
\* sequence only when e can match the empty string.
leftGoesOn(rules, e, all, st) == all \/ epsilon(e, rules, st.eps)

RECURSIVE ruleCheckLeft(_, _, _, _)
RECURSIVE exprCheckLeft(_, _, _, _)
RECURSIVE exprsCheckLeft(_, _, _, _, _, _)

\* checkLeft of rule i under the path p of rules being analysed.
ruleCheckLeft(rules, i, p, st) ==
    IF hasType(i, st) THEN st
    ELSE IF \E k \in 1..Len(p) : p[k] = i THEN cycleFound(rules, i, p, st)
    ELSE ruleLeftDone(rules, i, exprCheckLeft(rules, rules[i].Expr, Append(p, i), st))

\* st is the state after checkLeft of es[k]: a sequence (all = FALSE) goes on
\* to the next factor only when es[k] can match the empty string.
exprsLeftNext(rules, es, k, all, p, st) ==
    IF leftGoesOn(rules, es[k], all, st)
    THEN exprsCheckLeft(rules, es, k + 1, all, p, st)
    ELSE st

exprsCheckLeft(rules, es, k, all, p, st) ==
    IF k > Len(es) THEN st
    ELSE exprsLeftNext(rules, es, k, all, p, exprCheckLeft(rules, es[k], p, st))

exprCheckLeft(rules, e, p, st) ==
    CASE e.t = "Choice" -> exprsCheckLeft(rules, e.Exprs, 1, TRUE, p, st)
      [] e.t = "Sequence" -> exprsCheckLeft(rules, e.Exprs, 1, FALSE, p, st)
      [] e.t \in {"LabelExpr", "PredExpr", "RepExpr", "OptExpr", "SubExpr"} ->
           exprCheckLeft(rules, e.Expr, p, st)
      [] e.t = "Ident" ->
           IF ruleMap(rules, NameString(e.Name)) = 0 THEN st
           ELSE ruleCheckLeft(rules, ruleMap(rules, NameString(e.Name)), p, st)
      [] OTHER -> st

\* The pass: checkLeft of every rule in turn, each from the empty path.
RECURSIVE checkLeft(_, _, _)
checkLeft(rules, i, st) ==
    IF i > Len(rules) THEN st
    ELSE checkLeft(rules, i + 1, ruleCheckLeft(rules, i, <<>>, st))

\* ------------------------------------------------------- identifiers, labels
\* The check methods.  st.labels is the labels map of the rule, its entries
\* in the order their names were first set; st.e is the expression checked
\* last, with its rule pointers and label numbers set; st.visits lists the
\* labels in the order LabelExpr.check was entered.
RECURSIVE exprCheck(_, _, _)
RECURSIVE exprsCheck(_, _, _, _, _)

exprsCheckNext(es, k, rules, st, done) ==
    exprsCheck(es, k + 1, rules, st, Append(done, st.e))

exprsCheck(es, k, rules, st, done) ==
    IF k > Len(es) THEN [st EXCEPT !.e = done]
    ELSE exprsCheckNext(es, k, rules, exprCheck(es[k], rules, st), done)

withExprs(e, st) == [st EXCEPT !.e = [e EXCEPT !.Exprs = st.e]]

withExpr(e, st) == [st EXCEPT !.e = [e EXCEPT !.Expr = st.e]]

hasLabel(labels, name) == \E k \in 1..Len(labels) : labels[k].Name = name

\* LabelExpr.check after e.Expr.check: the redefinition test, e.N = len(labels)
\* and labels[name] = e.
LabelExprCheck(e, st) ==
    [st EXCEPT
       !.errs = IF hasLabel(st.labels, e.Label.str)
                THEN add(@, e.Label.begin, "label " \o e.Label.str \o " redefined")
                ELSE @,
       !.labels = IF hasLabel(st.labels, e.Label.str)
                  THEN [k \in 1..Len(st.labels) |->
                          IF st.labels[k].Name = e.Label.str
                          THEN [Name |-> e.Label.str, N |-> Len(st.labels)]
                          ELSE st.labels[k]]
                  ELSE Append(@, [Name |-> e.Label.str, N |-> Len(st.labels)]),
       !.e = [e EXCEPT !.Expr = st.e, !.N = Len(st.labels)]]

\* Ident.check that looks the name up without setting the rule pointer.
IdentCheckUnbound(e, rules, st) ==
    IF ruleMap(rules, NameString(e.Name)) = 0
    THEN [st EXCEPT !.errs = add(@, e.Name.Name.begin,
                                 "rule " \o NameString(e.Name) \o " undefined"),
                    !.e = e]
    ELSE [st EXCEPT !.e = e]

\* Ident.check
IdentCheck(e, rules, st) ==
    IF ruleMap(rules, NameString(e.Name)) = 0
    THEN [st EXCEPT !.errs = add(@, e.Name.Name.begin,
                                 "rule " \o NameString(e.Name) \o " undefined"),
                    !.e = e]
    ELSE [st EXCEPT !.e = [e EXCEPT !.rule = ruleMap(rules, NameString(e.Name))]]

exprCheck(e, rules, st) ==
    CASE e.t \in {"Choice", "Sequence"} ->
           withExprs(e, exprsCheck(e.Exprs, 1, rules, st, <<>>))
      [] e.t = "LabelExpr" ->
           LabelExprCheck(e, exprCheck(e.Expr, rules,
                                       [st EXCEPT !.visits = Append(@, e.Label.str)]))
      [] e.t \in {"PredExpr", "RepExpr", "OptExpr", "SubExpr"} ->
           withExpr(e, exprCheck(e.Expr, rules, st))
      [] e.t = "Ident" -> IdentCheck(e, rules, st)
      [] OTHER -> [st EXCEPT !.e = e]

\* check: a rule's expression checked against an empty labels map.
check(rule, rules, errs) ==
    exprCheck(rule.Expr, rules, [e |-> <<>>, labels |-> <<>>, visits |-> <<>>, errs |-> errs])

\* Check's second loop.  acc.rules are the rules checked so far, acc.labels
\* and acc.visits their labels maps and visits.
checkNext(rules, i, acc, st) ==
    [rules |-> Append(acc.rules, [rules[i] EXCEPT !.Expr = st.e]),
     labels |-> Append(acc.labels, st.labels),
     visits |-> Append(acc.visits, st.visits),
     errs |-> st.errs]

RECURSIVE checkAll(_, _, _)
checkAll(rules, i, acc) ==
    IF i > Len(rules) THEN acc
    ELSE checkAll(rules, i + 1, checkNext(rules, i, acc, check(rules[i], rules, acc.errs)))

\* Check's third loop ranges over each labels map: the map's entries come in
\* an order that the run chooses.
Orders(ls) ==
    {[k \in 1..Len(ls) |-> ls[p[k]]] :
        p \in {q \in [1..Len(ls) -> 1..Len(ls)] :
                  \A a, b \in 1..Len(ls) : q[a] = q[b] => a = b}}

RECURSIVE Labelled(_, _, _)
Labelled(rules, labels, i) ==
    IF i = 0 THEN {<<>>}
    ELSE {Append(rs, [rules[i] EXCEPT !.Labels = ls]) :
             rs \in Labelled(rules, labels, i - 1), ls \in Orders(labels[i])}

\* What one call of Check does up to its third loop: the rules expanded and
\* numbered, the errors in the order they were added, the rules' labels maps.
Checking(g) ==
    LET x == expandTemplates(g, <<>>)
        rules == numbered(x.expanded)
        left == checkLeft(rules, 1,
                    [typ |-> {}, eps |-> [i \in 1..Len(rules) |-> FALSE],
                     errs |-> redefined(rules, 1, x.errs)])
    IN [expanded |-> rules, eps |-> left.eps,
        done |-> checkAll(rules, 1, [rules |-> <<>>, labels |-> <<>>,
                                     visits |-> <<>>, errs |-> left.errs])]

\* Check assigning CheckedRules before it looks at the errors.
OutcomeAssignsFirst(c, rs) ==
    [err |-> ret(c.done.errs), added |-> c.done.errs,
     CheckedRules |-> rs,
     expanded |-> c.expanded, eps |-> c.eps, visits |-> c.done.visits]

\* The outcomes of Check(grammar): err is the error returned (<<>> is nil),
\* CheckedRules the field of the grammar, set only when err is nil.
Outcome(c, rs) ==
    [err |-> ret(c.done.errs), added |-> c.done.errs,
     CheckedRules |-> IF c.done.errs = <<>> THEN rs ELSE <<>>,
     expanded |-> c.expanded, eps |-> c.eps, visits |-> c.done.visits]

CheckOutcomes(g) ==
    LET c == Checking(g)
    IN {Outcome(c, rs) : rs \in Labelled(c.done.rules, c.done.labels, Len(c.done.rules))}

\* -------------------------------------------------------------- the machine
InitCheck ==
    /\ grammar \in Sources
    /\ checks = <<>>
    /\ gr = 1
    /\ text = <<>>
    /\ parser = _NewParser(<<>>, Len(Grammars[1]))
    /\ ncalls = 0
    /\ last = [op |-> "NewParser"]
    /\ lexer = [in |-> <<>>, n |-> 0, eof |-> FALSE, out |-> <<>>]

\* The grammar is read from its source and handed to Check.
Check ==
    /\ Len(checks) < MaxChecks
    /\ last.op = "NewParser"
    /\ \E out \in CheckOutcomes(grammar) : checks' = Append(checks, out)
    /\ UNCHANGED <<grammar, gr, text, parser, ncalls, last, lexer>>

\* main, once Check has returned nil: Config.Generate writes one rule's
\* functions for each of the grammar's CheckedRules, and the program ends.
Generate ==
    /\ Len(checks) > 0
    /\ last.op = "NewParser"
    /\ checks[Len(checks)].err = <<>>
    /\ last' = [op |-> "Generate", check |-> Len(checks),
                written |-> [k \in DOMAIN checks[Len(checks)].CheckedRules |->
                               NameString(checks[Len(checks)].CheckedRules[k].Name)]]
    /\ UNCHANGED <<grammar, checks, gr, text, parser, ncalls, lexer>>

NextCheck == Check \/ Generate

SpecCheck == InitCheck /\ [][NextCheck]_vars

\* ===================================================== the grammar lexer
\* The lexer of grammar sources (check.go, after the semantic check): next,
\* the unescaping of one rune (nextUnesc) and the reading of a character
\* class (charClass).  Runes are their code points; the lexer x is its input
\* in, the number n of runes read and its eof flag.

\* The code point of the rune literal 'ch'.
Rune(ch) ==
    CASE ch = "\"" -> 34 [] ch = "-" -> 45
      [] ch = "0" -> 48 [] ch = "1" -> 49 [] ch = "3" -> 51 [] ch = "4" -> 52
      [] ch = "7" -> 55 [] ch = "8" -> 56 [] ch = "9" -> 57
      [] ch = "A" -> 65 [] ch = "F" -> 70 [] ch = "U" -> 85
      [] ch = "[" -> 91 [] ch = "\\" -> 92 [] ch = "]" -> 93 [] ch = "^" -> 94
      [] ch = "a" -> 97 [] ch = "b" -> 98 [] ch = "f" -> 102 [] ch = "n" -> 110
      [] ch = "r" -> 114 [] ch = "t" -> 116 [] ch = "u" -> 117 [] ch = "v" -> 118
      [] ch = "x" -> 120

eof == -1

\* lexer.next: the next rune of the input, eof from its end on.
next(x) ==
    IF x.eof THEN [r |-> eof, x |-> x]
    ELSE IF x.n = Len(x.in) THEN [r |-> eof, x |-> [x EXCEPT !.eof = TRUE]]
    ELSE [r |-> x.in[x.n + 1], x |-> [x EXCEPT !.n = @ + 1]]

oct(r) ==
    IF Rune("0") <= r /\ r <= Rune("7") THEN [d |-> r - Rune("0"), ok |-> TRUE]
    ELSE [d |-> 0, ok |-> FALSE]

hex(r) ==
    IF Rune("0") <= r /\ r <= Rune("9") THEN [d |-> r - Rune("0"), ok |-> TRUE]
    ELSE IF Rune("a") <= r /\ r <= Rune("f") THEN [d |-> r - Rune("a") + 10, ok |-> TRUE]
    ELSE IF Rune("A") <= r /\ r <= Rune("F") THEN [d |-> r - Rune("A") + 10, ok |-> TRUE]
    ELSE [d |-> 0, ok |-> FALSE]

\* (v << bits) | d on an int32 v, for a d of fewer than bits bits: the low
\* 32 - bits bits of v move up, and bit 31 of the result is its sign.
shiftIn(v, bits, d) ==
    LET low == v % (2 ^ (32 - bits))
        half == 2 ^ (31 - bits)
    IN IF low < half THEN low * (2 ^ bits) + d
       ELSE (((low - half) * (2 ^ bits) + d) - CellMax) - 1

Unesc(r, esc, err, x) == [r |-> r, esc |-> esc, err |-> err, x |-> x]

\* The loop of nextUnesc over the i-th and later digits of an octal escape.
RECURSIVE octDigits(_, _, _)
octDigits(x, v, i) ==
    IF i >= 3
    THEN IF v > 255 THEN Unesc(0, FALSE, "octal escape >255", x) ELSE Unesc(v, TRUE, "", x)
    ELSE IF ~oct(next(x).r).ok THEN Unesc(0, FALSE, "unknown escape sequence", next(x).x)
    ELSE octDigits(next(x).x, shiftIn(v, 3, oct(next(x).r).d), i + 1)

\* The loop of nextUnesc over the i-th and later of the n digits of a \x, \u
\* or \U escape.
RECURSIVE hexDigits(_, _, _, _)
hexDigits(x, v, i, n) ==
    IF i >= n
    THEN IF v > 1114111 THEN Unesc(0, FALSE, "hex escape >0x10FFFF", x)
         ELSE Unesc(v, TRUE, "", x)
    ELSE IF ~hex(next(x).r).ok THEN Unesc(0, FALSE, "unknown escape sequence", next(x).x)
    ELSE hexDigits(next(x).x, shiftIn(v, 4, hex(next(x).r).d), i + 1, n)

\* nextUnesc, once it has read a backslash and the rune r after it.
escaped(r, x, delim) ==
    CASE r = eof -> Unesc(eof, TRUE, "", x)
      [] r = Rune("a") -> Unesc(7, TRUE, "", x)
      [] r = Rune("b") -> Unesc(8, TRUE, "", x)
      [] r = Rune("f") -> Unesc(12, TRUE, "", x)
      [] r = Rune("n") -> Unesc(10, TRUE, "", x)
      [] r = Rune("r") -> Unesc(13, TRUE, "", x)
      [] r = Rune("t") -> Unesc(9, TRUE, "", x)
      [] r = Rune("v") -> Unesc(11, TRUE, "", x)
      [] r = Rune("\\") -> Unesc(r, TRUE, "", x)
      [] oct(r).ok -> octDigits(x, oct(r).d, 1)
      [] r = Rune("x") -> hexDigits(x, 0, 0, 2)
      [] r = Rune("u") -> hexDigits(x, 0, 0, 4)
      [] r = Rune("U") -> hexDigits(x, 0, 0, 8)
      [] OTHER ->
           IF r = delim \/ (delim = Rune("]") /\ r = Rune("-")) THEN Unesc(r, TRUE, "", x)
           ELSE Unesc(0, FALSE, "unknown escape sequence", x)

\* lexer.nextUnesc: the next rune, unescaped, and whether it was escaped.
nextUnesc(x, delim) ==
    IF next(x).r # delim /\ next(x).r = Rune("\\")
    THEN escaped(next(next(x).x).r, next(next(x).x).x, delim)
    ELSE Unesc(next(x).r, FALSE, "", next(x).x)

\* charClass: the loop over the runes of the class.  c is the class built so
\* far (Spans, Neg) with the locals prev, hasPrev and span.
RECURSIVE classLoop(_, _)

\* The default case of the loop: a rune of the class, or the negating ^.
classRune(c, u) ==
    IF ~c.Neg /\ Len(c.Spans) = 0 /\ u.r = Rune("^") /\ ~u.esc
    THEN classLoop(u.x, [c EXCEPT !.Neg = TRUE])
    ELSE classLoop(u.x, [c EXCEPT !.Spans = IF c.hasPrev THEN Append(@, <<c.prev, c.prev>>)
                                            ELSE @,
                                  !.prev = u.r, !.hasPrev = TRUE])

classClosed(c, x) ==
    CASE c.span -> [cclass |-> Nil, err |-> "bad span", x |-> x]
      [] Len(c.Spans) = 0 /\ ~c.hasPrev -> [cclass |-> Nil, err |-> "bad char class: empty", x |-> x]
      [] OTHER ->
           [cclass |-> [Spans |-> IF c.hasPrev THEN Append(c.Spans, <<c.prev, c.prev>>)
                                  ELSE c.Spans,
                        Neg |-> c.Neg],
            err |-> "", x |-> x]

classNext(c, u) ==
    CASE u.err # "" -> [cclass |-> Nil, err |-> u.err, x |-> u.x]
      [] u.r = eof -> [cclass |-> Nil, err |-> "unclosed [", x |-> u.x]
      [] u.r = Rune("]") /\ ~u.esc -> classClosed(c, u.x)
      [] c.span ->
           IF ~c.hasPrev \/ c.prev >= u.r THEN [cclass |-> Nil, err |-> "bad span", x |-> u.x]
           ELSE classLoop(u.x, [c EXCEPT !.Spans = Append(@, <<c.prev, u.r>>),
                                         !.hasPrev = FALSE, !.span = FALSE])
      [] u.r = Rune("-") /\ ~u.esc -> classLoop(u.x, [c EXCEPT !.span = TRUE])
      [] OTHER -> classRune(c, u)

classLoop(x, c) == classNext(c, nextUnesc(x, Rune("]")))

\* charClass, called with the lexer before the opening [.
charClass(x) ==
    classLoop(next(x).x, [Spans |-> <<>>, Neg |-> FALSE, prev |-> 0,
                          hasPrev |-> FALSE, span |-> FALSE])

\* ----------------------------------------------------------- lexer inputs
RECURSIVE RunesUpTo(_, _)
RunesUpTo(rs, n) ==
    IF n = 0 THEN {<<>>}
    ELSE LET S == RunesUpTo(rs, n - 1)
         IN S \cup {Append(s, r) : s \in {u \in S : Len(u) = n - 1}, r \in rs}

\* Character classes: [ and up to MaxClass runes after it.
ClassInputs ==
    {<<Rune("[")>> \o s :
        s \in RunesUpTo({Rune("a"), Rune("b"), Rune("^"), Rune("-"), Rune("]"), Rune("\\")},
                        MaxClass)}

\* Escapes: a backslash, then up to three octal digits (or 8), or x, u or U
\* and up to as many hex digits as the escape takes, or one more rune.
EscInputs ==
    {<<Rune("\\")>> \o s :
        s \in RunesUpTo({Rune("0"), Rune("3"), Rune("4"), Rune("7"), Rune("8")}, 3)
              \cup {<<Rune("x")>> \o d : d \in RunesUpTo({Rune("0"), Rune("1"), Rune("F")}, 2)}
              \cup {<<Rune("u")>> \o d : d \in RunesUpTo({Rune("0"), Rune("1"), Rune("F")}, 4)}
              \cup {<<Rune("U")>> \o d : d \in RunesUpTo({Rune("0"), Rune("1"), Rune("F")}, 8)}
              \cup {<<Rune("n")>>, <<Rune("\"")>>, <<Rune("-")>>, <<Rune("^")>>}}

\* -------------------------------------------------------------- the machine
InitLex ==
    /\ lexer \in {[in |-> s, n |-> 0, eof |-> FALSE, out |-> <<>>] :
                    s \in ClassInputs \cup EscInputs}
    /\ grammar = <<>>
    /\ checks = <<>>
    /\ gr = 1
    /\ text = <<>>
    /\ parser = _NewParser(<<>>, Len(Grammars[1]))
    /\ ncalls = 0
    /\ last = [op |-> "NewParser"]

\* Lex meets a [ and reads the character class.
CharClass ==
    /\ lexer.n = 0 /\ lexer.in[1] = Rune("[")
    /\ LET c == charClass([in |-> lexer.in, n |-> 0, eof |-> FALSE])
       IN lexer' = [in |-> lexer.in, n |-> c.x.n, eof |-> c.x.eof,
                    out |-> Append(lexer.out, [op |-> "charClass", cclass |-> c.cclass,
                                               err |-> c.err])]
    /\ UNCHANGED <<gr, text, parser, ncalls, last, grammar, checks>>

\* Inside a string or a character class, the next rune is read unescaped.
NextUnesc(delim) ==
    /\ lexer.in[1] # Rune("[")
    /\ ~lexer.eof
    /\ IF lexer.out = <<>> THEN TRUE ELSE lexer.out[Len(lexer.out)].err = ""
    /\ LET u == nextUnesc([in |-> lexer.in, n |-> lexer.n, eof |-> lexer.eof], delim)
       IN lexer' = [in |-> lexer.in, n |-> u.x.n, eof |-> u.x.eof,
                    out |-> Append(lexer.out, [op |-> "nextUnesc", delim |-> delim,
                                               start |-> lexer.n, r |-> u.r,
                                               esc |-> u.esc, err |-> u.err])]
    /\ UNCHANGED <<gr, text, parser, ncalls, last, grammar, checks>>

NextLex ==
    \/ CharClass
    \/ \E delim \in {Rune("\""), Rune("]")} : NextUnesc(delim)

SpecLex == InitLex /\ [][NextLex]_vars


\* ======================================================== the table's cells
\* The tables of a parser over a text of any length, up to the greatest that
\* a 32-bit cell can count.  The text is given by its length alone, and of
\* the len(text)+1 rows only the first and the last are kept: the calls
\* below start at no other position.  bits is the width of int on the build
\* (32 or 64), which the language leaves to the platform.

\* n := len(text)+1 ; n < 0.  In an int of 32 bits the sum wraps for the
\* greatest length; in an int of 64 bits it does not wrap for any length
\* up to CellMax.
tooBig(len, bits) == bits = 32 /\ inc32(len) < 0

Rows(len) == {0, len}

_NewParserOfLen(len, n, bits) ==
    IF tooBig(len, bits) THEN [err |-> "input is too big", len |-> len, bits |-> bits]
    ELSE [ err |-> "", len |-> len, bits |-> bits,
           deltaPos |-> [i \in Rows(len) |-> [r \in 1..n |-> 0]],
           deltaErr |-> [i \in Rows(len) |-> [r \in 1..n |-> 0]],
           lastFail |-> 0,
           ret |-> [i \in Rows(len) |-> [r \in 1..n |-> <<>>]],
           memoLog |-> <<>> ]

\* Lengths at both ends of what len(text) can be on a build of 32-bit int.
Lens == {0, 1, CellMax - 1, CellMax}

InitCells ==
    /\ parser = Nil
    /\ last = [op |-> "none"]
    /\ ncalls = 0
    /\ gr = 1
    /\ text = <<>>
    /\ grammar = <<>>
    /\ checks = <<>>
    /\ lexer = [in |-> <<>>, n |-> 0, eof |-> FALSE, out |-> <<>>]

NewParser(len, bits) ==
    /\ parser = Nil
    /\ parser' = _NewParserOfLen(len, N, bits)
    /\ last' = [op |-> "NewParser", len |-> len, bits |-> bits]
    /\ UNCHANGED <<gr, text, ncalls, grammar, checks, lexer>>

\* The end of a rule's Accepts function that started at start, ended at pos
\* (-1 when the rule failed) and saw the furthest error at perr (-1: none).
Memoize(rule, start, pos, perr) ==
    /\ parser # Nil
    /\ parser.err = ""
    /\ ncalls < MaxCalls
    /\ parser' = [_memoize(parser, rule, start, pos, perr).p EXCEPT !.memoLog = <<>>]
    /\ last' = [op |-> "memoize", rule |-> rule, start |-> start,
                dp |-> _memoize(parser, rule, start, pos, perr).dp,
                de |-> _memoize(parser, rule, start, pos, perr).de]
    /\ ncalls' = ncalls + 1
    /\ UNCHANGED <<gr, text, grammar, checks, lexer>>

\* The start of a rule's Accepts function: the cell is read back.
Memo(rule, start) ==
    /\ parser # Nil
    /\ parser.err = ""
    /\ last.op # "memo"
    /\ last' = [op |-> "memo", rule |-> rule, start |-> start,
                dp |-> _memo(parser, rule, start).dp,
                de |-> _memo(parser, rule, start).de,
                ok |-> _memo(parser, rule, start).ok]
    /\ UNCHANGED <<parser, gr, text, ncalls, grammar, checks, lexer>>

\* The positions where the calls start, and where they can end.
Starts == IF parser = Nil THEN {} ELSE Rows(parser.len)
Ends(start) == {-1, start, parser.len}

NextCells ==
    \/ \E len \in Lens, bits \in {32, 64} : NewParser(len, bits)
    \/ \E rule \in 1..N, start \in Starts :
          \E pos \in Ends(start), perr \in Ends(start) :
              Memoize(rule, start, pos, perr)
    \/ \E rule \in 1..N, start \in Starts : Memo(rule, start)

SpecCells == InitCells /\ [][NextCells]_vars


\* ============================================================= properties
Recorded(i, r) == parser.ret[i][r] # <<>>
Cells == {<<i, r>> \in (0..Len(text)) \X (1..N) : TRUE}

\* C1: once Accepts(R, s) has returned (dp, _), every Node(R, s) return, the
\* first and the cached ones, is (s + dp, a node) when dp >= 0 and (-1, nil)
\* when dp < 0.
C1_NodeAgreesWithAccepts ==
    \A k \in DOMAIN parser.nodeLog :
        LET ev == parser.nodeLog[k]
            r == parser.ret[ev.start][ev.rule]
        IN r # <<>> =>
             IF r[1] >= 0 THEN ev.pos = ev.start + r[1] /\ ev.node # Nil
             ELSE ev.pos = -1 /\ ev.node = Nil

\* A Node call answered from the cache, after a first Node call that built
\* the node, and a Node call on a rule that Accepts recorded as failed.
C1_Witness ==
    /\ \E j, k \in DOMAIN parser.nodeLog :
          /\ j < k
          /\ parser.nodeLog[j].rule = parser.nodeLog[k].rule
          /\ parser.nodeLog[j].start = parser.nodeLog[k].start
          /\ ~parser.nodeLog[j].hit /\ parser.nodeLog[k].hit
          /\ parser.nodeLog[k].pos > parser.nodeLog[k].start
    /\ \E k \in DOMAIN parser.nodeLog : parser.nodeLog[k].pos = -1

\* C2: the Accepts pass runs a rule's expression at most once per (R, s), and
\* every Accepts(R, s) return after the first is the memoized (dp, de).
C2_MemoizedOnce ==
    /\ \A i \in 0..Len(text), r \in 1..N : parser.execs[i][r] <= 1
    /\ \A k \in DOMAIN parser.accLog :
          LET ev == parser.accLog[k]
          IN <<ev.dp, ev.de>> = parser.ret[ev.start][ev.rule]

\* A rule called a second time at the same start by its calling rule, after
\* a call on another (rule, start), and answered from the table.
C2_Witness ==
    \E i, j, k \in DOMAIN parser.accLog :
        /\ i < j /\ j < k
        /\ parser.accLog[i].rule = parser.accLog[k].rule
        /\ parser.accLog[i].start = parser.accLog[k].start
        /\ <<parser.accLog[j].rule, parser.accLog[j].start>>
               # <<parser.accLog[k].rule, parser.accLog[k].start>>
        /\ ~parser.accLog[i].hit /\ parser.accLog[k].hit

\* C3: for a rule with an error name, the furthest-error offset that Accepts
\* memoizes and returns is 0, when the rule accepts and when it fails.
C3_NamedErrorAtStart ==
    \A i \in 0..Len(text), r \in 1..N :
        (Rules[r].ErrorName # "" /\ Recorded(i, r)) => parser.ret[i][r][2] = 0

\* C4: a rule that first failed at s under a predicate, with furthest error
\* s + k, and is attempted again at s outside any predicate returns the same
\* offset k there, and its caller's perr is raised to at least s + k.
SilentThenLoud(i, j) ==
    /\ i < j
    /\ parser.accLog[i].rule = parser.accLog[j].rule
    /\ parser.accLog[i].start = parser.accLog[j].start
    /\ parser.accLog[i].pd > 0 /\ ~parser.accLog[i].hit /\ parser.accLog[i].dp < 0
    /\ parser.accLog[j].pd = 0 /\ j < Len(parser.accLog)

C4_SilentFailureReported ==
    \A i, j \in DOMAIN parser.accLog :
        SilentThenLoud(i, j) =>
            /\ parser.accLog[j].dp < 0
            /\ parser.accLog[j].de = parser.accLog[i].de
            /\ parser.accLog[j].perr >= parser.accLog[j].start + parser.accLog[i].de

\* The rule failed strictly inside itself (k > 0) under the predicate and is
\* then attempted outside it.
C4_Witness ==
    \E i, j \in DOMAIN parser.accLog :
        SilentThenLoud(i, j) /\ parser.accLog[i].de > 0

\* C5: a Fail call on a recorded (R, s) whose furthest error s + de lies
\* before errPos returns an empty failure, with position s + dp when Accepts
\* recorded success and -1 only when Accepts recorded failure.
C5_ShortCircuit ==
    \A k \in DOMAIN parser.failLog :
        LET ev == parser.failLog[k]
            r == parser.ret[ev.start][ev.rule]
        IN (r # <<>> /\ ev.start + r[2] < ev.errPos) =>
             /\ ev.failure.Want = "" /\ ev.failure.Kids = <<>>
             /\ r[1] >= 0 => ev.pos = ev.start + r[1]
             /\ ev.pos = -1 => r[1] < 0

\* C6: a Fail call on a named rule that Accepts recorded as failed at s with
\* furthest error at or after errPos returns a node without children, with
\* Want the rule's error name and Pos = s.
C6_NamedLeaf ==
    \A k \in DOMAIN parser.failLog :
        LET ev == parser.failLog[k]
            r == parser.ret[ev.start][ev.rule]
        IN (Rules[ev.rule].ErrorName # "" /\ r # <<>> /\ r[1] < 0
                /\ ev.start + r[2] >= ev.errPos) =>
             /\ ev.failure.Kids = <<>>
             /\ ev.failure.Want = Rules[ev.rule].ErrorName
             /\ ev.failure.Pos = ev.start

\* C7: after every memoization lastFail is the greatest furthest-error
\* position memoized so far, so no memoization decreases it.
C7_LastFailGreatest ==
    \A k \in DOMAIN parser.memoLog :
        \A j \in 1..k : parser.memoLog[k].perr >= parser.memoLog[j].perr

\* C7 as amended: lastFail is the furthest-error position handed to the most
\* recent memoization, which is what that attempt's Accepts returned.
C7_LastFailIsLastMemoized ==
    /\ parser.memoLog # <<>> =>
          parser.lastFail = parser.memoLog[Len(parser.memoLog)].perr
    /\ (last.op = "Accepts" /\ parser.memoLog # <<>>) =>
          parser.lastFail = last.start + last.de

\* A memoization that lowered lastFail.
C7_Witness ==
    \E k \in DOMAIN parser.memoLog :
        /\ k > 1
        /\ parser.memoLog[k].perr < parser.memoLog[k].before
        /\ parser.memoLog[k].before = parser.memoLog[k - 1].perr

\* C8: every deltaPos cell is 0, -1, or a positive p with i + p - 1 within
\* the text, and a cell that is non-zero keeps its value.
DeltaPosCellsOK ==
    \A i \in 0..Len(text), r \in 1..N :
        LET p == parser.deltaPos[i][r]
        IN p = 0 \/ p = -1 \/ (p > 0 /\ i + p - 1 <= Len(text))

DeltaPosFrozen ==
    \A i \in 0..Len(text), r \in 1..N :
        parser.deltaPos[i][r] # 0 => parser'.deltaPos[i][r] = parser.deltaPos[i][r]

C8_DeltaPosCells == []DeltaPosCellsOK /\ [][DeltaPosFrozen]_vars

\* After a second call: a failed cell, and a cell whose attempt consumed the
\* text up to its end.
C8_Witness ==
    /\ ncalls = 2
    /\ \E i \in 0..Len(text), r \in 1..N : parser.deltaPos[i][r] = -1
    /\ \E i \in 0..Len(text), r \in 1..N :
          parser.deltaPos[i][r] > 1 /\ i + parser.deltaPos[i][r] - 1 = Len(text)

\* C9: every recorded cell of deltaErr is strictly positive: the error offset
\* d is non-negative and the cell holds d + 1.
C9_DeltaErrPositive ==
    \A i \in 0..Len(text), r \in 1..N :
        parser.deltaPos[i][r] # 0 =>
            /\ parser.deltaErr[i][r] >= 1
            /\ parser.ret[i][r][2] >= 0

\* C9 as amended: a recorded cell holds d + 1 for the offset d = perr - i that
\* Accepts returned; d >= 0 when the attempt failed or ended with a failure
\* in perr, and d = -1 - i (perr still -1, the cell -i) otherwise.  An
\* unrecorded cell is 0.
C9_DeltaErrEncoding ==
    \A i \in 0..Len(text), r \in 1..N :
        IF parser.deltaPos[i][r] # 0
        THEN LET d == parser.ret[i][r][2]
             IN /\ parser.deltaErr[i][r] = d + 1
                /\ (d >= 0 /\ i + d <= Len(text)) \/ d = -1 - i
                /\ parser.ret[i][r][1] < 0 => d >= 0
        ELSE parser.deltaErr[i][r] = 0

\* Recorded cells holding 0, a negative value and a positive one.
C9_Witness ==
    /\ \E r \in 1..N : parser.deltaPos[0][r] > 0 /\ parser.deltaErr[0][r] = 0
    /\ \E i \in 1..Len(text), r \in 1..N :
          parser.deltaPos[i][r] > 0 /\ parser.deltaErr[i][r] = 0 - i
    /\ \E i \in 0..Len(text), r \in 1..N :
          parser.deltaPos[i][r] > 0 /\ parser.deltaErr[i][r] > 1

\* C10: a branch of a choice is entered with pos (and, in the Node pass, the
\* node's children) as at the entry of the choice, and a branch after the
\* first is entered only when the branch before it failed.
C10_OrderedChoice ==
    \A k \in DOMAIN parser.chLog :
        LET ev == parser.chLog[k]
        IN ev.branch > 0 =>
             /\ ev.pos = ev.pos0
             /\ ev.pass = "Node" => ev.kids = ev.nkids
             /\ ev.branch > 1 => ~parser.chLog[k - 1].ok

NullableNext(rules, prev) ==
    {i : i \in {m \in 1..Len(rules) :
                  epsilon(rules[m].Expr, rules, [j \in 1..Len(rules) |-> j \in prev])}}

RECURSIVE Nullable(_, _)
Nullable(rules, n) ==
    IF n = 0 THEN {} ELSE NullableNext(rules, Nullable(rules, n - 1))

Eps(rules) == [j \in 1..Len(rules) |-> j \in Nullable(rules, Len(rules))]

\* The rules referred to on the left edge of e: in a sequence, by the factors
\* up to and including the first one that cannot match the empty string.
RECURSIVE LeftRefsEps(_, _, _)
LeftRefsEps(e, rules, eps) ==
    CASE e.t = "Choice" -> UNION {LeftRefsEps(e.Exprs[k], rules, eps) : k \in 1..Len(e.Exprs)}
      [] e.t = "Sequence" ->
           UNION {LeftRefsEps(e.Exprs[k], rules, eps) :
                    k \in {m \in 1..Len(e.Exprs) :
                             \A j \in 1..(m - 1) : epsilon(e.Exprs[j], rules, eps)}}
      [] e.t \in {"LabelExpr", "PredExpr", "RepExpr", "OptExpr", "SubExpr"} ->
           LeftRefsEps(e.Expr, rules, eps)
      [] e.t = "Ident" -> {ruleMap(rules, NameString(e.Name))} \ {0}
      [] OTHER -> {}

LeftRefs(e, rules) == LeftRefsEps(e, rules, Eps(rules))

\* The pairs <<i, j>> of rules where rule i refers to rule j by edge.
Edges(rules, edge(_, _)) ==
    {p : p \in {q \in (1..Len(rules)) \X (1..Len(rules)) : q[2] \in edge(rules[q[1]].Expr, rules)}}

\* The rules referred to anywhere in e.
RECURSIVE Refs(_, _)
Refs(e, rules) ==
    CASE e.t \in {"Choice", "Sequence"} ->
           UNION {Refs(e.Exprs[k], rules) : k \in 1..Len(e.Exprs)}
      [] e.t \in {"LabelExpr", "PredExpr", "RepExpr", "OptExpr", "SubExpr"} ->
           Refs(e.Expr, rules)
      [] e.t = "Ident" -> {ruleMap(rules, NameString(e.Name))} \ {0}
      [] OTHER -> {}

\* The sequences of pairwise distinct rules.
Longer(L, prev, n) ==
    prev \cup UNION {{Append(c, i) : i \in (1..L) \ {c[a] : a \in 1..Len(c)}} :
                       c \in {d \in prev : Len(d) = n - 1}}

RECURSIVE PathsUpTo(_, _)
PathsUpTo(L, n) ==
    IF n = 0 THEN {<<>>} ELSE Longer(L, PathsUpTo(L, n - 1), n)

Paths(rules) == {c : c \in PathsUpTo(Len(rules), Len(rules)) \ {<<>>}}

IsCycle(c, edges) ==
    \A k \in 1..Len(c) : <<c[k], c[IF k = Len(c) THEN 1 ELSE k + 1]>> \in edges

\* The elementary left-recursive cycles, each once: from its least rule on.
CyclesOf(rules, edges) ==
    {c : c \in {d \in Paths(rules) : IsCycle(d, edges) /\ \A k \in 1..Len(d) : d[1] <= d[k]}}

LeftCycles(rules) == CyclesOf(rules, Edges(rules, LeftRefs))

\* The error texts that name cycle c, from whichever of its rules on.
Rotate(c, k) == [m \in 1..Len(c) |-> c[((m + k - 2) % Len(c)) + 1]]

LeftMsg(rules, c) ==
    "left-recursion: " \o cycleNames(rules, c) \o NameString(rules[c[1]].Name)

CycleMsgs(rules, c) == {LeftMsg(rules, Rotate(c, k)) : k \in 1..Len(c)}

\* The errors of outcome o that name cycle c, and all its left-recursion errors.
Reports(o, c) == {k \in DOMAIN o.added : o.added[k].Msg \in CycleMsgs(o.expanded, c)}

ErrsAmong(o, msgs) == {k \in DOMAIN o.added : o.added[k].Msg \in msgs}

LeftErrs(o) == ErrsAmong(o, {LeftMsg(o.expanded, c) : c \in Paths(o.expanded)})

C13_RightRecursionAccepted ==
    \A n \in DOMAIN checks :
        LeftCycles(checks[n].expanded) = {} => LeftErrs(checks[n]) = {}

\* Check has accepted a grammar whose rules refer to each other in a cycle.
C13_Witness ==
    \E n \in DOMAIN checks :
        /\ checks[n].err = <<>>
        /\ \E c \in Paths(checks[n].expanded) :
              Len(c) > 1 /\ IsCycle(c, Edges(checks[n].expanded, Refs))

\* ------------------------------------------------------------- templates
\* The identifiers anywhere in e, and those of them that pass arguments.
RECURSIVE Idents(_)
Idents(e) ==
    CASE e.t \in {"Choice", "Sequence"} -> UNION {Idents(e.Exprs[k]) : k \in 1..Len(e.Exprs)}
      [] e.t \in {"LabelExpr", "PredExpr", "RepExpr", "OptExpr", "SubExpr"} -> Idents(e.Expr)
      [] e.t = "Ident" -> {e}
      [] OTHER -> {}

Invocations(e) == {id \in Idents(e) : Len(id.Name.Args) > 0}

IsTemplate(r) == Len(r.Name.Args) > 0

\* Every invocation in g names a template that g declares once, with as many
\* arguments as that template has parameters.
InvocationsValid(g) ==
    \A i \in 1..Len(g) : \A id \in Invocations(g[i].Expr) :
        /\ Cardinality({j \in 1..Len(g) : g[j].Name.Name.str = id.Name.Name.str}) = 1
        /\ \E j \in 1..Len(g) :
              /\ g[j].Name.Name.str = id.Name.Name.str
              /\ Len(g[j].Name.Args) = Len(id.Name.Args)

\* The rules named n among the rules that Check has expanded.
Named(rules, n) == {i \in 1..Len(rules) : NameString(rules[i].Name) = n}

\* C14 as stated: when every invocation of the grammar names a declared
\* template with the right number of arguments, the expanded rules hold
\* exactly one specialised rule for each invocation text that occurs in a
\* rule that is not a template, however often and wherever in the rule's
\* expression the text occurs.
C14_OneRulePerInvocation ==
    \A n \in DOMAIN checks :
        InvocationsValid(grammar) =>
            \A i \in 1..Len(grammar) :
                ~IsTemplate(grammar[i]) =>
                    \A id \in Invocations(grammar[i].Expr) :
                        Cardinality(Named(checks[n].expanded, NameString(id.Name))) = 1

\* C15 as stated: after a successful Check no rule of CheckedRules has a
\* non-empty argument list.
C15_ArgumentFree ==
    \A n \in DOMAIN checks :
        \A i \in 1..Len(checks[n].CheckedRules) :
            checks[n].CheckedRules[i].Name.Args = <<>>

\* C15, amended: after a successful Check no rule of CheckedRules is a
\* template of the grammar; a rule of CheckedRules has arguments exactly when
\* it is a clone of a template, and its arguments are then those of an
\* invocation of that template in the grammar, not the template's parameters.
C15_NoTemplateRules ==
    \A n \in DOMAIN checks :
        \A i \in 1..Len(checks[n].CheckedRules) :
            LET r == checks[n].CheckedRules[i]
            IN /\ \A j \in 1..Len(grammar) :
                     IsTemplate(grammar[j]) => r.Name # grammar[j].Name
               /\ IF r.Name.Args = <<>>
                  THEN \E j \in 1..Len(grammar) :
                          ~IsTemplate(grammar[j]) /\ r.Name = grammar[j].Name
                  ELSE \E j, m \in 1..Len(grammar) :
                          /\ IsTemplate(grammar[j])
                          /\ r.Name.Name = grammar[j].Name.Name
                          /\ \E id \in Invocations(grammar[m].Expr) :
                                /\ id.Name.Name.str = r.Name.Name.str
                                /\ id.Name.Args = r.Name.Args

\* Check has succeeded on a grammar with a template and left a clone of it,
\* and no other rule with arguments, in CheckedRules.
C15_Witness ==
    \E n \in DOMAIN checks :
        /\ checks[n].err = <<>>
        /\ \E j \in 1..Len(grammar) : IsTemplate(grammar[j])
        /\ \E i \in 1..Len(checks[n].CheckedRules) :
              checks[n].CheckedRules[i].Name.Args # <<>>

\* The errors of outcome o at location b with text msg.
Reported(o, b, msg) == \E k \in DOMAIN o.added : o.added[k] = Err(b, msg)

\* The invocations of g that expandTemplates looks at, each with a template
\* of its name: those with the wrong, and those with the right, argument count.
Mismatched(g) ==
    {<<t, j>> \in {templateInvocations(g)[k] : k \in DOMAIN templateInvocations(g)} \X (1..Len(g)) :
        /\ IsTemplate(g[j]) /\ g[j].Name.Name.str = t.Name.Name.str
        /\ Len(g[j].Name.Args) # Len(t.Name.Args)}

Matched(g) ==
    {<<t, j>> \in {templateInvocations(g)[k] : k \in DOMAIN templateInvocations(g)} \X (1..Len(g)) :
        /\ IsTemplate(g[j]) /\ g[j].Name.Name.str = t.Name.Name.str
        /\ Len(g[j].Name.Args) = Len(t.Name.Args)}

\* The parameters of g's templates that repeat an earlier parameter.
Duplicated(g) ==
    UNION {{<<j, k>> : k \in {a \in DOMAIN g[j].Name.Args :
                                 \E m \in 1..(a - 1) : g[j].Name.Args[m].str = g[j].Name.Args[a].str}} :
             j \in 1..Len(g)}

\* The rules of g that are not templates and do not bear a template's name:
\* the rules that expandTemplates hands on as they are.
Kept(g) == {i \in 1..Len(g) : ~IsTemplate(g[i]) /\ g[i].Name.Name.str \notin tmpNames(g)}

C17_IdentsBound ==
    \A n \in DOMAIN checks :
        \A i \in 1..Len(checks[n].CheckedRules) :
            \A id \in Idents(checks[n].CheckedRules[i].Expr) :
                /\ id.rule \in 1..Len(checks[n].CheckedRules)
                /\ NameString(checks[n].CheckedRules[id.rule].Name) = NameString(id.Name)

\* Check has succeeded and CheckedRules holds a template clone with an
\* identifier that substitute has put in place of a parameter, and a rule
\* with an identifier that passes arguments.
C17_Witness ==
    \E n \in DOMAIN checks :
        /\ \E i \in 1..Len(checks[n].CheckedRules) :
              /\ checks[n].CheckedRules[i].Name.Args # <<>>
              /\ \E id \in Idents(checks[n].CheckedRules[i].Expr) :
                    id.Name.Name.str = checks[n].CheckedRules[i].Name.Args[1].str
        /\ \E i \in 1..Len(checks[n].CheckedRules) :
              Invocations(checks[n].CheckedRules[i].Expr) # {}

\* ----------------------------------------------------------------- labels
\* The scopes of e: each the set of labels that one way through e, taking
\* one branch at every choice, passes by.
RECURSIVE Scopes(_)
RECURSIVE ScopesOfAll(_)
ScopesOfAll(es) ==
    IF es = <<>> THEN {{}}
    ELSE {a \cup b : a \in Scopes(Head(es)), b \in ScopesOfAll(Tail(es))}
Scopes(e) ==
    CASE e.t = "Choice" -> UNION {Scopes(e.Exprs[k]) : k \in 1..Len(e.Exprs)}
      [] e.t = "Sequence" -> ScopesOfAll(e.Exprs)
      [] e.t = "LabelExpr" -> {a \cup {e.Label} : a \in Scopes(e.Expr)}
      [] e.t \in {"PredExpr", "RepExpr", "OptExpr", "SubExpr"} -> Scopes(e.Expr)
      [] OTHER -> {{}}

LabelsOf(e) == UNION Scopes(e)

\* C18 as stated: Check reports `label X redefined` in a rule exactly when
\* two labels named X lie in one scope of the rule; labels of one name in
\* different branches of a choice are not reported.
C18_LabelScopes ==
    \A n \in DOMAIN checks :
        \A i \in 1..Len(checks[n].expanded) :
            \A l \in LabelsOf(checks[n].expanded[i].Expr) :
                (\E m \in LabelsOf(checks[n].expanded[i].Expr) :
                    /\ m.str = l.str
                    /\ Reported(checks[n], m.begin, "label " \o l.str \o " redefined"))
                <=> (\E a \in Scopes(checks[n].expanded[i].Expr) :
                        \E m \in a : l \in a /\ m # l /\ m.str = l.str)

\* C19 as stated: after a successful Check the labels of each rule have the
\* numbers 0..k-1, each label's number is its place in the order in which the
\* traversal first visited the labels, and the rule's label list holds the
\* labels in that order.
C19_LabelOrder ==
    \A n \in DOMAIN checks :
        \A i \in 1..Len(checks[n].CheckedRules) :
            LET ls == checks[n].CheckedRules[i].Labels
            IN /\ Len(ls) = Len(checks[n].visits[i])
               /\ \A k \in 1..Len(ls) :
                     /\ ls[k].N = k - 1
                     /\ ls[k].Name = checks[n].visits[i][k]

\* ----------------------------------------------------------------- errors
\* C20: the errors Check returns are the errors added, in non-decreasing
\* order of their begin location (line, then column) whatever the order they
\* were added in; and every call of Check on the same grammar returns them in
\* the same order, errors of one begin location included.
C20_ErrorsSorted ==
    \A n \in DOMAIN checks :
        LET e == checks[n].err
        IN /\ \A k \in 1..(Len(e) - 1) : ~Less(e[k + 1].Begin, e[k].Begin)
           /\ Len(e) = Len(checks[n].added)
           /\ \A x \in {e[k] : k \in DOMAIN e} :
                 Cardinality({k \in DOMAIN e : e[k] = x})
                 = Cardinality({k \in DOMAIN e : checks[n].added[k] = x})
           /\ \A m \in DOMAIN checks : checks[m].err = e

\* Check has run twice on a grammar whose errors were added out of order
\* and of which two have the same begin location.
C20_Witness ==
    /\ Len(checks) > 1
    /\ checks[1].err # checks[1].added
    /\ \E k \in 1..(Len(checks[1].err) - 1) :
          checks[1].err[k].Begin = checks[1].err[k + 1].Begin

\* ---------------------------------------------------- check, then generate
\* C21: a call of Check that records an error returns an error and leaves
\* CheckedRules unassigned, one that records none returns nil and assigns
\* every rule; the generator has run only after a call that returned nil, and
\* has written rule functions for exactly the CheckedRules of that call.
C21_FailedCheckNotGenerated ==
    /\ \A n \in DOMAIN checks :
          LET o == checks[n]
          IN /\ o.added # <<>> => o.err # <<>> /\ o.CheckedRules = <<>>
             /\ o.added = <<>> =>
                   /\ o.err = <<>>
                   /\ [k \in DOMAIN o.CheckedRules |-> o.CheckedRules[k].Name] =
                      [k \in DOMAIN o.expanded |-> o.expanded[k].Name]
    /\ last.op = "Generate" =>
          /\ checks[last.check].added = <<>>
          /\ last.written = [k \in DOMAIN checks[last.check].expanded |->
                                NameString(checks[last.check].expanded[k].Name)]

\* Check has recorded two errors for a grammar of several rules, after
\* expanding it.
C21_Witness ==
    \E n \in DOMAIN checks :
        /\ Len(checks[n].added) >= 2
        /\ Len(checks[n].expanded) >= 2
        /\ checks[n].CheckedRules = <<>>

\* ------------------------------------------------------------- epsilon
\* The subexpressions of e, e among them.
RECURSIVE SubExprsOf(_)
SubExprsOf(e) ==
    CASE e.t \in {"Choice", "Sequence"} ->
           {e} \cup UNION {SubExprsOf(e.Exprs[k]) : k \in 1..Len(e.Exprs)}
      [] e.t \in {"LabelExpr", "PredExpr", "RepExpr", "OptExpr", "SubExpr"} ->
           {e} \cup SubExprsOf(e.Expr)
      [] OTHER -> {e}

Repetitions(o) ==
    {e \in UNION {SubExprsOf(o.expanded[i].Expr) : i \in DOMAIN o.expanded} : e.t = "RepExpr"}

\* C29: in every grammar handed to Check, the epsilon flag of a repetition E*
\* is true and the epsilon flag of a repetition E+ is the epsilon flag of E.
C29_RepetitionEpsilon ==
    \A n \in DOMAIN checks :
        \A e \in Repetitions(checks[n]) :
            epsilon(e, checks[n].expanded, checks[n].eps) =
                (e.Op = "*" \/ epsilon(e.Expr, checks[n].expanded, checks[n].eps))

\* ------------------------------------------------------------ the lexer
\* C23: a character class that charClass returns is negated exactly when the
\* rune right after its [ is an unescaped ^.
C23_NegationOnlyFirst ==
    \A k \in DOMAIN lexer.out :
        (lexer.out[k].op = "charClass" /\ lexer.out[k].cclass # Nil) =>
            (lexer.out[k].cclass.Neg <=> lexer.in[2] = Rune("^"))

\* The number that the digits ds write in base b, most significant first.
RECURSIVE Written(_, _)
Written(ds, b) ==
    IF ds = <<>> THEN 0
    ELSE Written(SubSeq(ds, 1, Len(ds) - 1), b) * b + hex(ds[Len(ds)]).d

\* The hex digits ds write a number of at most 0x10FFFF: zeros, then at most
\* six digits that do.
InRange(ds) ==
    /\ \A k \in 1..(Len(ds) - 6) : hex(ds[k]).d = 0
    /\ Written(SubSeq(ds, _max(1, Len(ds) - 5), Len(ds)), 16) <= 1114111

\* The input is a whole escape: a backslash, then three octal digits, or x,
\* u or U and the two, four or eight hex digits that it takes.
WholeOctal == Len(lexer.in) = 4 /\ \A k \in 2..4 : oct(lexer.in[k]).ok

WholeHex ==
    /\ Len(lexer.in) > 2
    /\ \/ lexer.in[2] = Rune("x") /\ Len(lexer.in) = 4
       \/ lexer.in[2] = Rune("u") /\ Len(lexer.in) = 6
       \/ lexer.in[2] = Rune("U") /\ Len(lexer.in) = 10
    /\ \A k \in 3..Len(lexer.in) : hex(lexer.in[k]).ok

\* C24: nextUnesc accepts a hex escape exactly when the number written is at
\* most 0x10FFFF and an octal escape exactly when it is at most 255, and an
\* accepted escape yields the rune with the number written as code point.
C24_EscapeRange ==
    \A k \in DOMAIN lexer.out :
        LET o == lexer.out[k]
        IN (o.op = "nextUnesc" /\ o.start = 0 /\ lexer.in[1] = Rune("\\")) =>
              /\ WholeHex =>
                    /\ o.err = "" <=> InRange(SubSeq(lexer.in, 3, Len(lexer.in)))
                    /\ o.err = "" =>
                          o.esc /\ o.r = Written(SubSeq(lexer.in, 3, Len(lexer.in)), 16)
              /\ WholeOctal =>
                    /\ o.err = "" <=> Written(SubSeq(lexer.in, 2, 4), 8) <= 255
                    /\ o.err = "" => o.esc /\ o.r = Written(SubSeq(lexer.in, 2, 4), 8)

\* ------------------------------------------------------------ termination
\* C25: every call of Accepts returns: no repetition loop of the generated
\* code completes a run of its subexpression without advancing pos.
C25_AcceptsReturns == last.op # "Hang"

\* ------------------------------------------------- the Fail pass replayed
\* C26: every rule call (R, s) of a Fail pass returns a position >= 0 exactly
\* when the Accepts pass recorded a success for (R, s), and then the end
\* position that the Accepts pass recorded.
C26_FailFollowsAccepts ==
    \A k \in DOMAIN parser.failLog :
        LET ev == parser.failLog[k]
            r == parser.ret[ev.start][ev.rule]
        IN /\ ev.pos >= 0 <=> (r # <<>> /\ r[1] >= 0)
           /\ ev.pos >= 0 => ev.pos = ev.start + r[1]

\* C27: when Accepts(R0, 0) has failed with furthest-error position P, every
\* leaf that LeafFails selects from the tree that Fail(R0, 0, P) returns has
\* Pos = P.
C27_LeavesAtFurthestError ==
    (last.op = "Fail" /\ last.start = 0) =>
        \A k \in DOMAIN LeafFails(last.failure) :
            LeafFails(last.failure)[k].Pos = last.errPos

\* C30: on a parser that the constructor returned without error, what _memo
\* reads from the cells of (start, rule) is the (dp, de) that _memoize returned
\* when it wrote them; and a text whose offsets do not all fit in a cell is
\* refused by the constructor.
C30_CellsReadBack ==
    /\ (last.op = "memo" /\ parser.ret[last.start][last.rule] # <<>>) =>
          (last.ok /\ <<last.dp, last.de>> = parser.ret[last.start][last.rule])
    /\ (last.op = "NewParser" /\ last.len = CellMax) => parser.err # ""

\* C28: a code predicate is handed, for each label in its scope, the text of
\* the label's latest match that has not been abandoned by a fail label that
\* restores pos (of a choice branch, a repetition or an option), and the empty
\* string if there is none.
C28_LabelsOnPath ==
    \A k \in DOMAIN parser.codeLog :
        parser.codeLog[k].args = parser.codeLog[k].path

\* C22: of the returns of <Rule>Action(parser, s) in a call: on a recorded
\* success with dp, the position is s + dp and the pointer is not nil; on a
\* recorded failure they are -1 and nil; and a return for an (R, s) that an
\* earlier return gave a value for comes from the cache, with that position
\* and an equal value.
ActionReturns == {k \in DOMAIN parser.actLog : parser.actLog[k].ev = "return"}

C22_ActionCached ==
    \A k \in ActionReturns :
        LET a == parser.actLog[k]
            r == parser.ret[a.start][a.rule]
        IN /\ (r # <<>> /\ r[1] >= 0) => (a.pos = a.start + r[1] /\ a.n # Nil)
           /\ (r # <<>> /\ r[1] < 0) => (a.pos = -1 /\ a.n = Nil)
           /\ \A j \in ActionReturns :
                 (j < k /\ parser.actLog[j].rule = a.rule
                        /\ parser.actLog[j].start = a.start
                        /\ parser.actLog[j].n # Nil)
                 => (a.hit /\ a.pos = parser.actLog[j].pos /\ a.n = parser.actLog[j].n)

====
